---------------------------- MODULE Spec2Model ----------------------------
(***************************************************************************)
(* Model of the wearable-data scripts: chart_data.py (placement            *)
(* reconciliation and per-person windows), plot_normalized_vector_lengths  *)
(* .py (window selection, baseline shift) and organize_wearable_data.py    *)
(* (the vendor readers).  Each script is a batch program; each has its own *)
(* specification over its own group of variables.                          *)
(***************************************************************************)
EXTENDS Integers, Sequences, FiniteSets

VARIABLES
    \* chart_data.getpeople / main / get_startstop
    person_wrist,   \* the merged placement table (rows in file order)
    pc,             \* position of chart_data.main
    chart_wrists,   \* sorted distinct (person, wrist) tuples
    times,          \* sorted distinct integer timestamps
    start_stop,     \* the successor dictionary
    people_df,      \* the table getpeople returns
    people_w,       \* person-wrists main still has to build
    startstop,      \* what get_startstop returned for the person-wrist being built
    \* the time-window selection of buildperson and build_plot
    wcaller,          \* "buildperson" or "build_plot"
    wpc,              \* position: "read", "selected", "reselected"
    device_csv,       \* the device table as pd.read_csv returned it
    wstart,           \* start of the window
    wstop,            \* stop of the window
    person_device_df, \* outcome of the selection
    again_df,         \* outcome of the selection applied to person_device_df
    \* the accelerometer readers of organize_wearable_data.py
    reader,           \* the reader that runs
    rpc,              \* position: "loop", "saved", or the exception raised
    directory,        \* os.listdir(dirpath): the files, in listing order
    todo,             \* the files the loop has still to visit
    acc_data,         \* the accumulator (acc_data_black for GENEActiv)
    acc_data_pink,    \* the second accumulator of geneactiv_acc
    saved,            \* the save_df calls made: device and table
    \* plot_normalized_vector_lengths.baseshift_and_renormalize
    bpc,              \* position: "call", "returned", or the exception raised
    column,           \* the normalized_vector_length column as passed in
    baseline,         \* the local baseline
    shifted,          \* the column after the map of line 98
    datamax,          \* the local datamax
    data,             \* the column of the frame returned
    \* the correlation step of plot_normalized_vector_lengths.linechart
    cpc,              \* position: "loop", "done", or the exception raised
    plot_columns,     \* list(plot_df.columns): the device series of the chart
    esses,            \* the list esses of the series still to correlate
    ci,               \* position of the for loop over esses (from 1)
    calls,             \* the (s1.name, s2.name) of the cross_correlate calls made
    \* the main loops of chart_data and plot_normalized_vector_lengths
    driver,           \* "chart_data" or "plot_normalized_vector_lengths"
    dpc,              \* position of main: "loop", "done", or the exception that left it
    units,            \* the person-wrists or plot tuples main iterates over
    di,               \* the unit main is about to build (from 1)
    outcomes,          \* how buildperson / build_plot ended for each unit built
    \* actigraph_acc_data and geneactiv_acc_data on one vendor file
    parse_fn,         \* the reader whose per-file function runs
    parse_pc,         \* position: "call", "returned", or the exception raised
    open_csv,         \* the lines of the open vendor file
    returned_df,       \* the table new_df the function returned
    \* the pivot of buildperson (chart_data.py 87-96)
    pvt_pc,           \* position: "selected", "dates", "done", or the exception raised
    csv_df,           \* the long table of the selected readings of all devices
    dates,            \* the dates buildperson has still to chart
    charts,            \* the (date, wide table) pairs passed to linechart
    \* a run of plot_normalized_vector_lengths.main
    plot_pc,          \* position: "main", "chart", "adjusted chart", "write_csv", "done"
    ti,               \* the plot tuple main is at (from 1)
    device_files,     \* for each device, its normalized CSV: [exists, rows]    
    written,          \* the image and correlation files written, in order
    builds,            \* how each build_plot ended
    \* mindboggle/pipeline.py at its top level
    argv,             \* the length of sys.argv of the pipeline.py process
    environ,          \* the names of the environment variables that are set
    run_name,         \* __name__ of pipeline.py: "__main__" as a script
    isdir,            \* the directories that exist: of "output" and "workspace"
    ip,               \* the index in Statements of the next statement
    ending,           \* how pipeline.py ended; "" while it runs
    made,             \* the os.makedirs calls made, in order
    nodes,            \* the names of the nodes constructed, in order
    workflows,        \* the names of the workflows constructed, in order
    running,          \* the workflow whose run() is executing, "" if none
    executed,          \* the node executions of the engine, in order
    \* chart_data.buildperson, lines 63-75, step by step
    vpc,              \* position in lines 63-75 of buildperson
    device_file,      \* the rows of the device's organized csv file
    device_df,        \* the table read from the file
    vstart,           \* start of the person-wrist's window, a string
    vstop,            \* stop of the person-wrist's window, a string
    caught,           \* whether the except of line 68 was entered
    selection,         \* person_device_df: the rows selected, then with datetimes
    \* the loop over the devices in buildperson (58-86) and build_plot (142-182)
    lcaller,          \* "buildperson" or "build_plot": whose device loop runs
    listed,           \* for each device of the list, its file [exists, rows]
    li,               \* the index in listed of the device the loop is at
    lpc,              \* "loop", "done" or the exception that left the loop
    accumulated,       \* csv_df: the (device index, row index) pairs concatenated so far
    \* one call of cross_correlate (plot_normalized_vector_lengths.py 199-214)
    xpc,              \* "call", "written" or the exception cross_correlate raised
    xs1,              \* the values of the series s1, missing values dropped
    xs2,              \* the values of the series s2, missing values dropped
    corr,              \* the array np.correlate returned, as written to the file
    \* one call of drop_non_csv (organize_wearable_data.py 637-665)
    drop_pc,          \* "call", "returned" or the exception drop_non_csv raised
    csv_lines,        \* the lines of the open file, numbered from 1
    drop_arg,         \* the argument drop_rows
    header_arg,       \* the argument header_row
    fields,           \* the number of fields of the header line and of the later lines
    dropped_df,        \* the rows of the dataframe returned
    \* chart_data.main with the readings buildperson selects (24-28, 52-86)
    kpc,              \* "getpeople", "main", "done" or the exception raised
    log_table,        \* the placement log: the table person_wrist of getpeople
    kpeople_df,       \* the table getpeople returned
    kpeople_w,        \* the person-wrists main has still to chart
    person_charts,     \* for each person-wrist charted, the readings buildperson selected
    \* build_plot: the two tables of a device
    fpc,              \* position in the body of build_plot's device loop
    fdevice,          \* the device of the pass
    window_rows,      \* the rows of device_df in the plot window, as selected
    frames,           \* the tables in memory, by reference
    unshifted_ref,     \* person_device_df: reference of the unshifted table
    shifted_ref,        \* person_device_shifted: reference of the shifted table
    \* pipeline.py: the user settings
    gpc,              \* position of a run of pipeline.py under given settings
    settings,         \* the user settings of lines 85-123
    construction      \* how the run ended, and where

peopleVars == <<person_wrist, pc, chart_wrists, times, start_stop, people_df,
                people_w, startstop>>

windowVars == <<wcaller, wpc, device_csv, wstart, wstop, person_device_df,
                again_df>>

readerVars == <<reader, rpc, directory, todo, acc_data, acc_data_pink, saved>>

shiftVars == <<bpc, column, baseline, shifted, datamax, data>>

corrVars == <<cpc, plot_columns, esses, ci, calls>>

driverVars == <<driver, dpc, units, di, outcomes>>

parseVars == <<parse_fn, parse_pc, open_csv, returned_df>>

pivotVars == <<pvt_pc, csv_df, dates, charts>>

plotVars == <<plot_pc, ti, device_files, written, builds>>

pipelineVars == <<argv, environ, run_name, isdir, ip, ending, made, nodes, workflows, running, executed>>

convertVars == <<vpc, device_file, device_df, vstart, vstop, caught, selection>>

loopVars == <<lcaller, listed, li, lpc, accumulated>>

xcorrVars == <<xpc, xs1, xs2, corr>>

dropVars == <<drop_pc, csv_lines, drop_arg, header_arg, fields, dropped_df>>

chartVars == <<kpc, log_table, kpeople_df, kpeople_w, person_charts>>

frameVars == <<fpc, fdevice, window_rows, frames, unshifted_ref, shifted_ref>>

settingsVars == <<gpc, settings, construction>>

vars == <<peopleVars, windowVars, readerVars, shiftVars,
         corrVars,
         driverVars,
         parseVars,
         pivotVars,
         plotVars,
         pipelineVars,
         convertVars,
         loopVars,
         xcorrVars,
         dropVars,
         chartVars,
         frameVars,
         settingsVars>>

\* The variables of the scripts that a run of chart_data.main leaves alone.
notPeopleVars ==
    <<windowVars, readerVars, shiftVars, corrVars,
      driverVars, parseVars, pivotVars, plotVars,
      pipelineVars, convertVars,
    loopVars,
    xcorrVars,
    dropVars,
    chartVars,
    frameVars,
    settingsVars>>

\* The variables that the window selection leaves alone.
notWindowVars ==
    <<peopleVars, readerVars, shiftVars, corrVars,
      driverVars, parseVars, pivotVars, plotVars,
      pipelineVars, convertVars,
    loopVars,
    xcorrVars,
    dropVars,
    chartVars,
    frameVars,
    settingsVars>>

\* The variables that a reader leaves alone.
notReaderVars ==
    <<peopleVars, windowVars, shiftVars, corrVars,
      driverVars, parseVars, pivotVars, plotVars,
      pipelineVars, convertVars,
    loopVars,
    xcorrVars,
    dropVars,
    chartVars,
    frameVars,
    settingsVars>>

\* The variables that baseshift_and_renormalize leaves alone.
notShiftVars ==
    <<peopleVars, windowVars, readerVars, corrVars,
      driverVars, parseVars, pivotVars, plotVars,
      pipelineVars, convertVars,
    loopVars,
    xcorrVars,
    dropVars,
    chartVars,
    frameVars,
    settingsVars>>

\* The variables that the conversion in buildperson leaves alone.
notConvertVars ==
    <<peopleVars, windowVars, readerVars, shiftVars,
      corrVars, driverVars, parseVars, pivotVars,
      plotVars, pipelineVars,
    loopVars,
    xcorrVars,
    dropVars,
    chartVars,
    frameVars,
    settingsVars>>

\* The variables that pipeline.py leaves alone.
notPipelineVars ==
    <<peopleVars, windowVars, readerVars, shiftVars,
      corrVars, driverVars, parseVars, pivotVars,
      plotVars, convertVars,
    loopVars,
    xcorrVars,
    dropVars,
    chartVars,
    frameVars,
    settingsVars>>

\* The variables that a run of plot_normalized_vector_lengths.main leaves alone.
notPlotVars ==
    <<peopleVars, windowVars, readerVars, shiftVars,
      corrVars, driverVars, parseVars, pivotVars,
      pipelineVars, convertVars,
    loopVars,
    xcorrVars,
    dropVars,
    chartVars,
    frameVars,
    settingsVars>>

\* The variables that the pivot of buildperson leaves alone.
notPivotVars ==
    <<peopleVars, windowVars, readerVars, shiftVars,
      corrVars, driverVars, parseVars, plotVars,
      pipelineVars, convertVars,
    loopVars,
    xcorrVars,
    dropVars,
    chartVars,
    frameVars,
    settingsVars>>

\* The variables that the per-file functions leave alone.
notParseVars ==
    <<peopleVars, windowVars, readerVars, shiftVars,
      corrVars, driverVars, pivotVars, plotVars,
      pipelineVars, convertVars,
    loopVars,
    xcorrVars,
    dropVars,
    chartVars,
    frameVars,
    settingsVars>>

\* The variables that the main loops leave alone.
notDriverVars ==
    <<peopleVars, windowVars, readerVars, shiftVars,
      corrVars, parseVars, pivotVars, plotVars,
      pipelineVars, convertVars,
    loopVars,
    xcorrVars,
    dropVars,
    chartVars,
    frameVars,
    settingsVars>>

\* The variables that the correlation step leaves alone.
notCorrVars ==
    <<peopleVars, windowVars, readerVars, shiftVars,
      driverVars, parseVars, pivotVars, plotVars,
      pipelineVars, convertVars,
    loopVars,
    xcorrVars,
    dropVars,
    chartVars,
    frameVars,
    settingsVars>>

\* The variables that the device loop leaves alone.
notLoopVars ==
    <<peopleVars, windowVars, readerVars, shiftVars, corrVars, driverVars, parseVars, pivotVars, plotVars, pipelineVars, convertVars,
    xcorrVars,
    dropVars,
    chartVars,
    frameVars,
    settingsVars>>

\* The variables that cross_correlate leaves alone.
notXcorrVars ==
    <<peopleVars, windowVars, readerVars, shiftVars, corrVars, driverVars, parseVars, pivotVars, plotVars, pipelineVars, convertVars, loopVars,
    dropVars,
    chartVars,
    frameVars,
    settingsVars>>

\* The variables that drop_non_csv leaves alone.
notDropVars ==
    <<peopleVars, windowVars, readerVars, shiftVars, corrVars, driverVars, parseVars, pivotVars, plotVars, pipelineVars, convertVars, loopVars, xcorrVars,
    chartVars,
    frameVars,
    settingsVars>>

\* The variables that the selection by person-wrist leaves alone.
notChartVars ==
    <<peopleVars, windowVars, readerVars, shiftVars, corrVars, driverVars, parseVars, pivotVars, plotVars, pipelineVars, convertVars, loopVars, xcorrVars, dropVars,
    frameVars,
    settingsVars>>

\* The variables that one pass of build_plot's device loop leaves alone.
notFrameVars ==
    <<peopleVars, windowVars, readerVars, shiftVars, corrVars, driverVars, parseVars, pivotVars, plotVars, pipelineVars, convertVars, loopVars, xcorrVars, dropVars, chartVars,
    settingsVars>>

\* The variables that a run of pipeline.py under given settings leaves alone.
notSettingsVars ==
    <<peopleVars, windowVars, readerVars, shiftVars, corrVars, driverVars, parseVars, pivotVars, plotVars, pipelineVars, convertVars, loopVars, xcorrVars, dropVars, chartVars, frameVars>>

---------------------------------------------------------------------------
(* Bounds of the model.                                                    *)

\* Largest number of rows of the placement table.
MaxRows == 3

\* Largest number of rows of a device table.
MaxReadings == 3

\* Largest number of files of a vendor directory.
MaxFiles == 2

\* Largest number of data rows of a vendor file.
MaxFileRows == 2

\* Largest number of rows of a normalized_vector_length column.
MaxColumn == 4

\* Largest number of device series of a chart.
MaxSeries == 4

\* Largest number of data rows of a vendor export with malformed rows.
MaxExportRows == 3

\* Largest number of selected readings of one device in the long table.
MaxDeviceRows == 2

\* Largest number of person-wrists or plot tuples of one run of main.
MaxUnits == 2

\* Largest number of device files of one person-wrist or plot tuple.
MaxUnitDevices == 2

---------------------------------------------------------------------------
(* Dates, times and their string forms.                                    *)
(*                                                                         *)
(* A datetime is [d, s, f]: day number, second of the day, microsecond.    *)
(* A timestamp string is [d, s, sep, f]: the fixed-width text              *)
(* "%Y-%m-%d %H:%M:%S" followed by nothing (sep ""), by ".%f" (sep ".")    *)
(* or by ":%f" (sep ":").                                                  *)

\* datetime.fromtimestamp(int(x)); the process time zone is UTC.
fromtimestamp(x) == [d |-> x \div 86400, s |-> x % 86400, f |-> 0]

\* Order of datetime objects.
DtLeq(a, b) ==
    \/ a.d < b.d
    \/ a.d = b.d /\ a.s < b.s
    \/ a.d = b.d /\ a.s = b.s /\ a.f <= b.f

DtLess(a, b) == DtLeq(a, b) /\ a # b

\* x.strftime(fmt) for the three formats the scripts use, named by their
\* separator before %f ("" when the format has no %f).
strftime(x, sep) ==
    [d |-> x.d, s |-> x.s, sep |-> sep, f |-> IF sep = "" THEN 0 ELSE x.f]

\* Whether datetime.strptime(x, fmt) succeeds: the text must have the
\* shape of the format.
Parses(x, sep) == x.sep = sep

\* datetime.strptime(x, fmt), when it succeeds.
strptime(x, sep) == [d |-> x.d, s |-> x.s, f |-> x.f]

\* datetimeint(x, dt_format): re-format a timestamp string as
\* "%Y-%m-%d %H:%M:%S.%f".
datetimeint(x, sep) == strftime(strptime(x, sep), ".")

\* datetimedt(x): parse "%Y-%m-%d %H:%M:%S.%f".
datetimedt(x) == strptime(x, ".")

\* Rank of the character that follows the seconds in a timestamp string:
\* end of text < "." < ":" (ASCII 46 < 58; a prefix sorts first).
SepRank(sep) == IF sep = "" THEN 0 ELSE IF sep = "." THEN 1 ELSE 2

\* Python's <= on two timestamp strings (lexicographic on the text).
StrLeq(a, b) ==
    \/ a.d < b.d
    \/ a.d = b.d /\ a.s < b.s
    \/ a.d = b.d /\ a.s = b.s /\ SepRank(a.sep) < SepRank(b.sep)
    \/ a.d = b.d /\ a.s = b.s /\ a.sep = b.sep /\ a.f <= b.f

---------------------------------------------------------------------------
(* Generic list helpers.                                                   *)

\* list.sort() on distinct integers, as the ascending sequence of a set.
RECURSIVE SortedSeq(_)
SortedSeq(S) ==
    IF S = {} THEN <<>>
    ELSE LET m == CHOOSE x \in S : \A y \in S : x <= y
         IN  <<m>> \o SortedSeq(S \ {m})

\* Concatenation of the sequences f[1], ..., f[n].
RECURSIVE Flatten(_, _)
Flatten(f, n) == IF n = 0 THEN <<>> ELSE Flatten(f, n - 1) \o f[n]

Range(s) == {s[i] : i \in DOMAIN s}

\* pd.unique: the distinct elements in order of first appearance.
RECURSIVE Unique(_)
Unique(s) ==
    IF s = <<>> THEN <<>>
    ELSE LET r == Unique(SubSeq(s, 1, Len(s) - 1))
         IN  IF s[Len(s)] \in Range(r) THEN r ELSE Append(r, s[Len(s)])

---------------------------------------------------------------------------
(* Each specification runs one script; the variables of the others rest.   *)

NoTable == <<>>

\* An outcome of a step that has not run.
NotRun == [err |-> "not run"]

PeopleIdle ==
    /\ person_wrist = NoTable
    /\ pc = "idle"
    /\ chart_wrists = <<>>
    /\ times = <<>>
    /\ start_stop = <<>>
    /\ people_df = <<>>
    /\ people_w = <<>>
    /\ startstop = [person |-> <<"nan", "nan">>]

WindowIdle ==
    /\ wcaller = "idle"
    /\ wpc = "idle"
    /\ device_csv = NoTable
    /\ wstart = 0
    /\ wstop = 0
    /\ person_device_df = NotRun
    /\ again_df = NotRun

\* A DataFrame accumulator of a reader: the class pd.DataFrame itself
\* ("class"), pd.DataFrame() without columns ("empty"), or a table.
NoFrame == [state |-> "empty", rows |-> <<>>]

ReaderIdle ==
    /\ reader = "idle"
    /\ rpc = "idle"
    /\ directory = <<>>
    /\ todo = <<>>
    /\ acc_data = NoFrame
    /\ acc_data_pink = NoFrame
    /\ saved = <<>>

\* nan: a missing float.  A float that is present is an exact fraction
\* [num, den] in lowest terms with den > 0.
nan == [num |-> 0, den |-> 0]

ShiftIdle ==
    /\ bpc = "idle"
    /\ column = <<>>
    /\ baseline = nan
    /\ shifted = <<>>
    /\ datamax = nan
    /\ data = <<>>

CorrIdle ==
    /\ cpc = "idle"
    /\ plot_columns = <<>>
    /\ esses = <<>>
    /\ ci = 1
    /\ calls = <<>>

DriverIdle ==
    /\ driver = "idle"
    /\ dpc = "idle"
    /\ units = <<>>
    /\ di = 1
    /\ outcomes = <<>>

ParseIdle ==
    /\ parse_fn = "idle"
    /\ parse_pc = "idle"
    /\ open_csv = <<>>
    /\ returned_df = <<>>

PivotIdle ==
    /\ pvt_pc = "idle"
    /\ csv_df = <<>>
    /\ dates = <<>>
    /\ charts = <<>>

PlotIdle ==
    /\ plot_pc = "idle"
    /\ ti = 1
    /\ device_files = <<>>
    /\ written = <<>>
    /\ builds = <<>>

PipelineIdle ==
    /\ argv = 1
    /\ environ = {}
    /\ run_name = ""
    /\ isdir = {}
    /\ ip = 1
    /\ ending = ""
    /\ made = <<>>
    /\ nodes = <<>>
    /\ workflows = <<>>
    /\ running = ""
    /\ executed = <<>>

ConvertIdle ==
    /\ vpc = "read"
    /\ device_file = <<>>
    /\ device_df = <<>>
    /\ vstart = NotRun
    /\ vstop = NotRun
    /\ caught = FALSE
    /\ selection = <<>>

LoopIdle ==
    /\ lcaller = "idle"
    /\ listed = <<>>
    /\ li = 1
    /\ lpc = "idle"
    /\ accumulated = <<>>

XcorrIdle ==
    /\ xpc = "idle"
    /\ xs1 = <<>>
    /\ xs2 = <<>>
    /\ corr = <<>>

DropIdle ==
    /\ drop_pc = "idle"
    /\ csv_lines = <<>>
    /\ drop_arg = 0
    /\ header_arg = FALSE
    /\ fields = [header |-> 4, rows |-> 4]
    /\ dropped_df = <<>>

ChartIdle ==
    /\ kpc = "idle"
    /\ log_table = <<>>
    /\ kpeople_df = <<>>
    /\ kpeople_w = <<>>
    /\ person_charts = <<>>

FrameIdle ==
    /\ fpc = "idle"
    /\ fdevice = ""
    /\ window_rows = <<>>
    /\ frames = <<>>
    /\ unshifted_ref = 0
    /\ shifted_ref = 0

SettingsIdle ==
    /\ gpc = "idle"
    /\ settings = <<>>
    /\ construction = <<>>

---------------------------------------------------------------------------
(* chart_data.getpeople                                                    *)

\* config.devices
devices == <<"Actigraph", "E4", "Embrace", "GENEActiv_black", "GENEActiv_pink",
             "Wavelet">>

\* The (nan, nan) tuple of a device nobody wears.
NaN == <<"nan", "nan">>

\* The (person, wrist) tuples of the placement logs, in Python's tuple order.
PersonWrists == << <<"Alice", "left">>, <<"Bob", "right">> >>

\* The placement logs considered: Embrace and GENEActiv_black are put on
\* and taken off together with the Actigraph, GENEActiv_pink and Wavelet
\* together with the E4.
WornDevices == {"Actigraph", "E4"}

WornWith ==
    [Actigraph |-> "Actigraph", E4 |-> "E4", Embrace |-> "Actigraph",
     GENEActiv_black |-> "Actigraph", GENEActiv_pink |-> "E4",
     Wavelet |-> "E4"]

\* The timestamps a placement log row may carry.
LogTimestamps == {100 * (k - 1) : k \in 1..MaxRows}

\* The cells of a row of the placement table, one per device.
PlacementCells ==
    { [dv \in Range(devices) |-> g[WornWith[dv]]] :
        g \in [WornDevices -> Range(PersonWrists) \cup {NaN}] }

\* chart_data.py 178-183: the outer merge of person.csv and wrist.csv, two
\* exports of one log keyed by timestamp, on Timestamp: one row for each
\* timestamp, the rows in ascending order of Timestamp.
PlacementTables ==
    UNION { { [k \in 1..Cardinality(T) |->
                 [Timestamp |-> SortedSeq(T)[k], cells |-> c[k]]] :
              c \in [1..Cardinality(T) -> PlacementCells] } :
            T \in (SUBSET LogTimestamps) \ {{}} }

\* chart_data.py 182-183: read_csv gives a device column without any
\* wearer the dtype float64, and a column with a wearer the dtype object.
\* The empty cells of an object column hold the object np.nan; those of a
\* float64 column are handed out as a new nan at every access, so that the
\* tuples zip makes of them (184-195) differ from (np.nan, np.nan), from
\* one another and from every other tuple.
Float64Columns(table) ==
    {dv \in Range(devices) : \A i \in DOMAIN table : table[i].cells[dv] = NaN}

\* The (person, wrist) tuples of the table, in Python's tuple order.
Wearers(table) ==
    SelectSeq(PersonWrists,
              LAMBDA v : \E i \in DOMAIN table, dv \in Range(devices) :
                            table[i].cells[dv] = v)

\* chart_data.py 198-201: the distinct tuples v with v != (np.nan, np.nan),
\* in the order of person_wrist.values.ravel(): row by row and device by
\* device. A tuple of a float64 column passes the test, every cell of such
\* a column with a tuple of its own.
Appended(table) ==
    Flatten([i \in DOMAIN table |->
               Flatten([j \in DOMAIN devices |->
                          LET v == table[i].cells[devices[j]]
                          IN  IF devices[j] \in Float64Columns(table)
                              THEN <<v>>
                              ELSE IF /\ v # NaN
                                      /\ \A k \in 1..(i - 1), dv \in Range(devices) :
                                            table[k].cells[dv] # v
                                      /\ \A l \in 1..(j - 1) :
                                            table[i].cells[devices[l]] # v
                              THEN <<v>>
                              ELSE <<>>],
                       Len(devices))],
            Len(table))

\* chart_data.py 204: chart_wrists.sort() compares a nan with a name as
\* soon as the list holds a tuple of a float64 column and a (person, wrist)
\* tuple: TypeError.
SortRaises(table) == Float64Columns(table) # {} /\ Wearers(table) # <<>>

\* chart_data.py 197-204: chart_wrists, sorted; tuples of nan compare
\* neither less nor greater and stay as appended.
ChartWrists(table) ==
    IF Float64Columns(table) = {} THEN Wearers(table) ELSE Appended(table)

\* chart_data.py 197-205: the distinct integers of the table, sorted.
Times(table) == SortedSeq({table[i].Timestamp : i \in DOMAIN table})

\* A variant of StartStop that pairs a timestamp with the one after its
\* successor, and the last but one with the last.
StartStopSecondNext(ts) ==
    [t \in {ts[i] : i \in 1..(Len(ts) - 1)} |->
        LET i == CHOOSE k \in 1..(Len(ts) - 1) : ts[k] = t
        IN  IF i + 2 <= Len(ts) THEN ts[i + 2] ELSE ts[i + 1]]

\* A variant of StartStop that pairs every timestamp with the last one.
StartStopToLast(ts) ==
    [t \in {ts[i] : i \in 1..(Len(ts) - 1)} |-> ts[Len(ts)]]

\* chart_data.py 206-209: start_stop[t] = times[i + 1] for every i but the last.
StartStop(ts) ==
    [t \in {ts[i] : i \in 1..(Len(ts) - 1)} |->
        ts[(CHOOSE i \in 1..(Len(ts) - 1) : ts[i] = t) + 1]]

\* A variant of PeopleOf without the test item == pw: every assigned cell
\* of the device is appended under pw.
RECURSIVE PeopleOfAnyWearer(_, _, _, _, _)
PeopleOfAnyWearer(table, ss, pw, device, n) ==
    IF n = 0 THEN <<>>
    ELSE LET rest == PeopleOfAnyWearer(table, ss, pw, device, n - 1)
         IN  IF table[n].cells[device] # NaN
             THEN Append(rest, [person_wrist |-> pw, device |-> device,
                                start |-> table[n].Timestamp,
                                stop |-> ss[table[n].Timestamp]])
             ELSE rest

\* chart_data.py 213-217: the rows appended for one person-wrist and device,
\* in row order.
RECURSIVE PeopleOf(_, _, _, _, _)
PeopleOf(table, ss, pw, device, n) ==
    IF n = 0 THEN <<>>
    ELSE LET rest == PeopleOf(table, ss, pw, device, n - 1)
         IN  IF table[n].cells[device] = pw
             THEN Append(rest, [person_wrist |-> pw, device |-> device,
                                start |-> table[n].Timestamp,
                                stop |-> ss[table[n].Timestamp]])
             ELSE rest

\* chart_data.py 213-217: start_stop[...] raises KeyError for a row whose
\* timestamp is not a key. (A tuple of a float64 column is found in its own
\* cell, and such a column has one in every row.)
RaisesKeyError(table, ss, cw) ==
    \E k \in DOMAIN cw, dv \in Range(devices), i \in DOMAIN table :
        /\ table[i].cells[dv] = cw[k]
        /\ table[i].Timestamp \notin DOMAIN ss

\* chart_data.py 197-224: how getpeople ends on a table.
GetpeopleOutcome(table) ==
    IF SortRaises(table) THEN "TypeError"
    ELSE IF RaisesKeyError(table, StartStop(Times(table)), ChartWrists(table))
    THEN "KeyError"
    ELSE "returns"

\* chart_data.py 210-217: the people list, person-wrist by person-wrist and
\* device by device.
People(table, ss, cw) ==
    Flatten([k \in DOMAIN cw |->
                Flatten([j \in DOMAIN devices |->
                            PeopleOf(table, ss, cw[k], devices[j], Len(table))],
                        Len(devices))],
            Len(cw))

\* chart_data.py 218-223: start and stop become datetime objects.
PeopleDf(people) ==
    [i \in DOMAIN people |->
        [people[i] EXCEPT !.start = fromtimestamp(@), !.stop = fromtimestamp(@)]]

\* Python's min and max of a non-empty list of datetimes.
MinDt(S) == CHOOSE x \in S : \A y \in S : DtLeq(x, y)
MaxDt(S) == CHOOSE x \in S : \A y \in S : DtLeq(y, x)

\* A variant of get_startstop that takes every row of df.
GetStartstopAllRows(df, person) ==
    [person |-> person,
     start |-> datetimeint(strftime(MinDt({df[i].start : i \in DOMAIN df}), ""), ""),
     stop |-> datetimeint(strftime(MaxDt({df[i].stop : i \in DOMAIN df}), ""), "")]

\* chart_data.py 226-252: get_startstop.
get_startstop(df, person) ==
    LET rows == SelectSeq(df, LAMBDA r : r.person_wrist = person)
    IN  [person |-> person,
         start |-> datetimeint(strftime(MinDt({rows[i].start : i \in DOMAIN rows}), ""), ""),
         stop |-> datetimeint(strftime(MaxDt({rows[i].stop : i \in DOMAIN rows}), ""), "")]

NoResult == [person |-> NaN]

InitPeople ==
    /\ person_wrist \in PlacementTables
    /\ pc = "getpeople"
    /\ chart_wrists = <<>>
    /\ times = <<>>
    /\ start_stop = <<>>
    /\ people_df = <<>>
    /\ people_w = <<>>
    /\ startstop = NoResult
    /\ WindowIdle
    /\ ReaderIdle
    /\ ShiftIdle
    /\ CorrIdle
    /\ DriverIdle
    /\ ParseIdle
    /\ PivotIdle
    /\ PlotIdle
    /\ PipelineIdle
    /\ ConvertIdle
    /\ LoopIdle
    /\ XcorrIdle
    /\ DropIdle
    /\ ChartIdle
    /\ FrameIdle
    /\ SettingsIdle

\* getpeople returns the table (chart_data.py 197-224).
GetpeopleReturns ==
    /\ pc = "getpeople"
    /\ GetpeopleOutcome(person_wrist) = "returns"
    /\ chart_wrists' = ChartWrists(person_wrist)
    /\ times' = Times(person_wrist)
    /\ start_stop' = StartStop(times')
    /\ people_df' = PeopleDf(People(person_wrist, start_stop', chart_wrists'))
    /\ people_w' = Unique([i \in DOMAIN people_df' |-> people_df'[i].person_wrist])
    /\ pc' = "main"
    /\ UNCHANGED <<person_wrist, startstop>>
    /\ UNCHANGED notPeopleVars

\* getpeople stops with a KeyError raised by start_stop[...] (line 216).
GetpeopleRaises ==
    /\ pc = "getpeople"
    /\ GetpeopleOutcome(person_wrist) = "KeyError"
    /\ chart_wrists' = ChartWrists(person_wrist)
    /\ times' = Times(person_wrist)
    /\ start_stop' = StartStop(times')
    /\ pc' = "KeyError"
    /\ UNCHANGED <<person_wrist, people_df, people_w, startstop>>
    /\ UNCHANGED notPeopleVars

\* getpeople stops with a TypeError raised by chart_wrists.sort() (line
\* 204): the loop of lines 199-203 has appended the distinct timestamps to
\* times in the order of the rows, times.sort() (205) has not run and
\* start_stop is not built.
GetpeopleSortRaises ==
    /\ pc = "getpeople"
    /\ GetpeopleOutcome(person_wrist) = "TypeError"
    /\ chart_wrists' = Appended(person_wrist)
    /\ times' = Unique([i \in DOMAIN person_wrist |-> person_wrist[i].Timestamp])
    /\ pc' = "TypeError"
    /\ UNCHANGED <<person_wrist, start_stop, people_df, people_w, startstop>>
    /\ UNCHANGED notPeopleVars

\* chart_data.py 27-28 and 52: main takes the next person-wrist and
\* buildperson asks get_startstop for its overall window.
Buildperson ==
    /\ pc = "main"
    /\ people_w # <<>>
    /\ startstop' = get_startstop(people_df, Head(people_w))
    /\ people_w' = Tail(people_w)
    /\ UNCHANGED <<person_wrist, pc, chart_wrists, times, start_stop, people_df>>
    /\ UNCHANGED notPeopleVars

\* chart_data.py 27: the loop over person-wrists is over.
MainDone ==
    /\ pc = "main"
    /\ people_w = <<>>
    /\ pc' = "done"
    /\ UNCHANGED <<person_wrist, chart_wrists, times, start_stop, people_df,
                   people_w, startstop>>
    /\ UNCHANGED notPeopleVars

\* getpeople ended with KeyError on a table whose device columns all have a
\* wearer, one of them in the row with the largest timestamp.
KeyErrorOnFinalRow ==
    /\ pc = "KeyError"
    /\ Float64Columns(person_wrist) = {}
    /\ \E i \in DOMAIN person_wrist, dv \in Range(devices) :
          /\ person_wrist[i].cells[dv] # NaN
          /\ \A k \in DOMAIN person_wrist :
                person_wrist[k].Timestamp <= person_wrist[i].Timestamp

NextPeople ==
    \/ GetpeopleReturns
    \/ GetpeopleRaises
    \/ GetpeopleSortRaises
    \/ Buildperson
    \/ MainDone

SpecPeople == InitPeople /\ [][NextPeople]_vars

---------------------------------------------------------------------------
(* Claims about getpeople and get_startstop, checked under SpecPeople.     *)

Returned == pc \in {"main", "done"}

LogTimes == {person_wrist[i].Timestamp : i \in DOMAIN person_wrist}

LastLogTime == CHOOSE t \in LogTimes : \A u \in LogTimes : u <= t

\* The (row, device) places of the table that hold an assignment.
Assignments ==
    {a \in (DOMAIN person_wrist) \X Range(devices) :
        person_wrist[a[1]].cells[a[2]] # NaN}

\* The smallest log timestamp strictly greater than t.
Succ(t) ==
    CHOOSE u \in LogTimes : u > t /\ \A w \in LogTimes : w > t => u <= w

IntervalOf(a) ==
    [person_wrist |-> person_wrist[a[1]].cells[a[2]],
     device |-> a[2],
     start |-> fromtimestamp(person_wrist[a[1]].Timestamp),
     stop |-> fromtimestamp(Succ(person_wrist[a[1]].Timestamp))]

\* C1: whenever getpeople returns, the set of rows of the returned table is
\* exactly the set of (person-wrist, device, t, succ(t)) over the rows t and
\* devices whose column holds that person-wrist, succ(t) being the smallest
\* log timestamp greater than t taken across all devices.
C1_WearIntervalsExact ==
    Returned => Range(people_df) = {IntervalOf(a) : a \in Assignments}

\* C1 witness: Alice/left on Actigraph at 0 and on E4 at 100, with a later
\* timestamp 200: both intervals are in the returned table, which holds
\* these and those of the devices worn along with the two.
C1_Witness ==
    /\ Returned
    /\ [person_wrist |-> <<"Alice", "left">>, device |-> "Actigraph",
        start |-> fromtimestamp(0), stop |-> fromtimestamp(100)]
          \in Range(people_df)
    /\ [person_wrist |-> <<"Alice", "left">>, device |-> "E4",
        start |-> fromtimestamp(100), stop |-> fromtimestamp(200)]
          \in Range(people_df)
    /\ Len(people_df) = 6

\* Some device column holds an assignment in a row with the largest timestamp.
FinalRowAssigned ==
    \E a \in Assignments : person_wrist[a[1]].Timestamp = LastLogTime

\* C2: when a device column holds an assignment in the row with the largest
\* timestamp, getpeople completes normally, emits no interval starting at
\* that timestamp and emits every interval that starts earlier.
C2_FinalRowDropped ==
    (pc # "getpeople" /\ FinalRowAssigned) =>
        /\ Returned
        /\ \A i \in DOMAIN people_df :
              people_df[i].start # fromtimestamp(LastLogTime)
        /\ \A a \in Assignments :
              person_wrist[a[1]].Timestamp # LastLogTime =>
                  IntervalOf(a) \in Range(people_df)

\* C3: for a log with N >= 2 distinct timestamps the successor map has
\* exactly N-1 keys, every timestamp but the largest, each mapped to the
\* timestamp that immediately follows it; every emitted interval has
\* start < stop and the largest timestamp is never a start.
C3_SuccessorMap ==
    (pc \notin {"getpeople", "TypeError"} /\ Cardinality(LogTimes) >= 2) =>
        /\ Cardinality(DOMAIN start_stop) = Cardinality(LogTimes) - 1
        /\ DOMAIN start_stop = LogTimes \ {LastLogTime}
        /\ \A t \in DOMAIN start_stop :
              /\ start_stop[t] \in LogTimes
              /\ t < start_stop[t]
              /\ ~\E u \in LogTimes : t < u /\ u < start_stop[t]
        /\ \A i \in DOMAIN people_df :
              /\ DtLess(people_df[i].start, people_df[i].stop)
              /\ people_df[i].start # fromtimestamp(LastLogTime)

\* C3 witness: three distinct timestamps, and an interval was emitted.
C3_Witness ==
    /\ Returned
    /\ Cardinality(LogTimes) = 3
    /\ people_df # <<>>

\* Two intervals overlap when read as half-open ranges [start, stop).
Overlap(a, b) == DtLess(a.start, b.stop) /\ DtLess(b.start, a.stop)

\* C4: in the table getpeople returns, two intervals of the same device
\* that belong to different (wearer, wrist) pairs never overlap in time.
C4_NoOverlapPerDevice ==
    Returned =>
        \A i, j \in DOMAIN people_df :
            (/\ people_df[i].device = people_df[j].device
             /\ people_df[i].person_wrist # people_df[j].person_wrist)
                => ~Overlap(people_df[i], people_df[j])

\* C4 witness: getpeople returned a table in which one device has an
\* interval of one person-wrist and, from the stop of that interval on, an
\* interval of another.
C4_Witness ==
    /\ Returned
    /\ \E i, j \in DOMAIN people_df :
           /\ people_df[i].device = people_df[j].device
           /\ people_df[i].person_wrist # people_df[j].person_wrist
           /\ people_df[i].stop = people_df[j].start

RowsOf(pw) == {i \in DOMAIN people_df : people_df[i].person_wrist = pw}

\* C5: get_startstop(df, pw) returns the minimum start and the maximum stop
\* over exactly the rows of df whose person_wrist is pw.
C5_OverallWindow ==
    startstop # NoResult =>
        LET mine == RowsOf(startstop.person)
            lo == datetimedt(startstop.start)
            hi == datetimedt(startstop.stop)
        IN  /\ \E i \in mine : people_df[i].start = lo
            /\ \A i \in mine : DtLeq(lo, people_df[i].start)
            /\ \E i \in mine : people_df[i].stop = hi
            /\ \A i \in mine : DtLeq(people_df[i].stop, hi)

\* C5 witness: the window of a person-wrist with rows of several devices,
\* while a row of another person-wrist stops later than that window does.
C5_Witness ==
    /\ startstop # NoResult
    /\ Cardinality({people_df[i].device : i \in RowsOf(startstop.person)}) >= 2
    /\ startstop.start # startstop.stop
    /\ \E j \in DOMAIN people_df :
          /\ people_df[j].person_wrist # startstop.person
          /\ DtLess(datetimedt(startstop.stop), people_df[j].stop)

---------------------------------------------------------------------------
(* The time-window selection: chart_data.buildperson 63-71 and             *)
(* plot_normalized_vector_lengths.build_plot 149-160.                      *)
(*                                                                         *)
(* A device table is a sequence of rows [Timestamp, value]; value stands   *)
(* for the value columns (x, y, z or normalized_vector_length).  The       *)
(* Timestamp column holds timestamp strings, or datetime objects once      *)
(* build_plot has converted it.                                            *)

IsStr(t) == "sep" \in DOMAIN t

\* A variant of str that always prints the microseconds.
StrWithMicroseconds(t) ==
    IF IsStr(t) THEN t
    ELSE [d |-> t.d, s |-> t.s, sep |-> ".", f |-> t.f]

\* Python's str(x): a string is itself; a datetime prints as
\* "%Y-%m-%d %H:%M:%S", followed by ".%f" only when its microsecond is not 0.
str(t) ==
    IF IsStr(t) THEN t
    ELSE [d |-> t.d, s |-> t.s, sep |-> IF t.f = 0 THEN "" ELSE ".", f |-> t.f]

\* <= on two cells of a Timestamp column, or on a cell and a window bound.
TsLeq(a, b) == IF IsStr(a) THEN StrLeq(a, b) ELSE DtLeq(a, b)

\* A variant of SortValues that leaves the rows in the order given.
SortValuesKeepOrder(df) == df

\* df.sort_values(by='Timestamp'): ascending by Timestamp.  NumPy's
\* quicksort sorts runs of up to 16 elements by insertion, so the rows of
\* the small tables considered here keep their order among equal Timestamps.
RECURSIVE SortValues(_)
SortValues(df) ==
    IF df = <<>> THEN <<>>
    ELSE LET rest == SortValues(SubSeq(df, 1, Len(df) - 1))
             row == df[Len(df)]
             k == Cardinality({i \in DOMAIN rest :
                                  TsLeq(rest[i].Timestamp, row.Timestamp)})
         IN  SubSeq(rest, 1, k) \o <<row>> \o SubSeq(rest, k + 1, Len(rest))

\* A variant of ConvertBuildperson that converts cell by cell in place and
\* stops at the first cell that does not parse.
RECURSIVE ConvertBuildpersonPartial(_)
ConvertBuildpersonPartial(df) ==
    IF df = <<>> THEN <<>>
    ELSE IF Parses(str(df[1].Timestamp), ":")
    THEN <<[df[1] EXCEPT !.Timestamp = datetimeint(str(@), ":")]>>
             \o ConvertBuildpersonPartial(Tail(df))
    ELSE df

\* chart_data.py 65-69: the Timestamp column becomes datetimeint(str(x)) when
\* every cell parses in datetimeint's default format, and is left as read
\* when any cell does not.
ConvertBuildperson(df) ==
    IF \A i \in DOMAIN df : Parses(str(df[i].Timestamp), ":")
    THEN [i \in DOMAIN df |->
            [df[i] EXCEPT !.Timestamp = datetimeint(str(@), ":")]]
    ELSE df

\* plot_normalized_vector_lengths.py 151-157: the Timestamp column becomes
\* datetime objects, parsed with "%S.%f" or, when a cell fails that, with
\* the default format; a cell that fails the second format too raises.
ConvertBuildPlot(df) ==
    IF \A i \in DOMAIN df : Parses(str(df[i].Timestamp), ".")
    THEN [err |-> "",
          df |-> [i \in DOMAIN df |->
                    [df[i] EXCEPT !.Timestamp = datetimedt(datetimeint(str(@), "."))]]]
    ELSE IF \A i \in DOMAIN df : Parses(str(df[i].Timestamp), ":")
    THEN [err |-> "",
          df |-> [i \in DOMAIN df |->
                    [df[i] EXCEPT !.Timestamp = datetimedt(datetimeint(str(@), ":"))]]]
    ELSE [err |-> "ValueError"]

\* A variant of InWindow whose upper bound is exclusive.
InWindowExclusiveStop(t, start, stop) ==
    TsLeq(start, t) /\ TsLeq(t, stop) /\ t # stop

\* chart_data.py 70-71, plot_normalized_vector_lengths.py 158-160:
\* (Timestamp >= start) & (Timestamp <= stop).
InWindow(t, start, stop) == TsLeq(start, t) /\ TsLeq(t, stop)

\* df.loc[...]: the rows inside the window, in the order of df.
Select(df, start, stop) ==
    SelectSeq(df, LAMBDA r : InWindow(r.Timestamp, start, stop))

\* chart_data.py 64-71.
WindowBuildperson(df, start, stop) ==
    [err |-> "", df |-> Select(ConvertBuildperson(SortValues(df)), start, stop)]

\* plot_normalized_vector_lengths.py 150-160.
WindowBuildPlot(df, start, stop) ==
    LET c == ConvertBuildPlot(SortValues(df))
    IN  IF c.err # "" THEN c
        ELSE [err |-> "", df |-> Select(c.df, start, stop)]

Window(caller, df, start, stop) ==
    IF caller = "buildperson" THEN WindowBuildperson(df, start, stop)
    ELSE WindowBuildPlot(df, start, stop)

\* The instants of the readings considered: the last second of a day, the
\* first of the next, and half a second later.
ReadingInstants ==
    { [d |-> 0, s |-> 86399, f |-> 0],
      [d |-> 1, s |-> 0, f |-> 0],
      [d |-> 1, s |-> 0, f |-> 500000] }

\* The instants a window may start or stop at (whole seconds: get_startstop
\* formats with "%S", define_plot_data gives whole minutes).
WindowInstants ==
    { [d |-> 0, s |-> 86399, f |-> 0],
      [d |-> 1, s |-> 0, f |-> 0],
      [d |-> 1, s |-> 1, f |-> 0] }

ReadingValues == {1, 2}

\* The organized CSV of one device: every Timestamp in the same format.
DeviceTables ==
    UNION { { [i \in 1..n |-> [Timestamp |-> strftime(rows[i].t, sep),
                               value |-> rows[i].value]] :
                rows \in [1..n -> [t : ReadingInstants, value : ReadingValues]] } :
            n \in 0..MaxReadings, sep \in {".", ":"} }

InitWindow ==
    /\ wcaller \in {"buildperson", "build_plot"}
    /\ wpc = "read"
    /\ device_csv \in DeviceTables
    /\ \E a, b \in WindowInstants :
          IF wcaller = "buildperson"
          THEN wstart = strftime(a, ".") /\ wstop = strftime(b, ".")
          ELSE wstart = a /\ wstop = b
    /\ person_device_df = NotRun
    /\ again_df = NotRun
    /\ PeopleIdle
    /\ ReaderIdle
    /\ ShiftIdle
    /\ CorrIdle
    /\ DriverIdle
    /\ ParseIdle
    /\ PivotIdle
    /\ PlotIdle
    /\ PipelineIdle
    /\ ConvertIdle
    /\ LoopIdle
    /\ XcorrIdle
    /\ DropIdle
    /\ ChartIdle
    /\ FrameIdle
    /\ SettingsIdle

\* The selection on the device table as read.
SelectWindow ==
    /\ wpc = "read"
    /\ person_device_df' = Window(wcaller, device_csv, wstart, wstop)
    /\ wpc' = "selected"
    /\ UNCHANGED <<wcaller, device_csv, wstart, wstop, again_df>>
    /\ UNCHANGED notWindowVars

\* The same selection on the table the first one returned.
SelectAgain ==
    /\ wpc = "selected"
    /\ person_device_df.err = ""
    /\ again_df' = Window(wcaller, person_device_df.df, wstart, wstop)
    /\ wpc' = "reselected"
    /\ UNCHANGED <<wcaller, device_csv, wstart, wstop, person_device_df>>
    /\ UNCHANGED notWindowVars

NextWindow ==
    \/ SelectWindow
    \/ SelectAgain

SpecWindow == InitWindow /\ [][NextWindow]_vars

---------------------------------------------------------------------------
(* Claims about the time-window selection, checked under SpecWindow.       *)

\* The instant a Timestamp cell or a window bound denotes.
Instant(t) == [d |-> t.d, s |-> t.s, f |-> t.f]

\* A table with each Timestamp replaced by its instant.
Readings(df) ==
    [i \in DOMAIN df |-> [t |-> Instant(df[i].Timestamp), value |-> df[i].value]]

Count(rows, r) == Cardinality({i \in DOMAIN rows : rows[i] = r})

InRange(r) == DtLeq(Instant(wstart), r.t) /\ DtLeq(r.t, Instant(wstop))

Selected == wpc \in {"selected", "reselected"}

\* C6: the selection returns exactly the readings r with
\* start <= r.Timestamp <= stop, both bounds inclusive: each in-range input
\* row is returned as often as it was given, with its values, and nothing
\* else is returned.
C6_WindowExact ==
    Selected =>
        /\ person_device_df.err = ""
        /\ \A r \in Range(Readings(device_csv)) \cup Range(Readings(person_device_df.df)) :
              Count(Readings(person_device_df.df), r) =
                  IF InRange(r) THEN Count(Readings(device_csv), r) ELSE 0

\* C6 witness: a reading exactly at start and one exactly at stop are
\* returned, and a reading after stop is not.
C6_Witness ==
    /\ Selected
    /\ Instant(wstart) # Instant(wstop)
    /\ \E i, j \in DOMAIN person_device_df.df :
          /\ Instant(person_device_df.df[i].Timestamp) = Instant(wstart)
          /\ Instant(person_device_df.df[j].Timestamp) = Instant(wstop)
    /\ Len(person_device_df.df) < Len(device_csv)

\* The window is the full range of the readings given.
FullRange ==
    /\ device_csv # <<>>
    /\ \E i \in DOMAIN device_csv : Instant(device_csv[i].Timestamp) = Instant(wstart)
    /\ \E i \in DOMAIN device_csv : Instant(device_csv[i].Timestamp) = Instant(wstop)
    /\ \A i \in DOMAIN device_csv :
          /\ DtLeq(Instant(wstart), Instant(device_csv[i].Timestamp))
          /\ DtLeq(Instant(device_csv[i].Timestamp), Instant(wstop))

\* C7 as stated: with start the minimum and stop the maximum timestamp of
\* the readings, the selection returns all of them in the order given.
C7_FullRangeGivenOrder ==
    (Selected /\ FullRange) =>
        /\ person_device_df.err = ""
        /\ Readings(person_device_df.df) = Readings(device_csv)

\* C7 as amended: with start the minimum and stop the maximum timestamp of
\* the readings, the selection returns all of them, each as often as given,
\* in ascending order of timestamp.
C7_FullRangeAscending ==
    (Selected /\ FullRange) =>
        /\ person_device_df.err = ""
        /\ Len(person_device_df.df) = Len(device_csv)
        /\ \A r \in Range(Readings(device_csv)) :
              Count(Readings(person_device_df.df), r) = Count(Readings(device_csv), r)
        /\ \A i, j \in DOMAIN person_device_df.df :
              i < j => DtLeq(Instant(person_device_df.df[i].Timestamp),
                             Instant(person_device_df.df[j].Timestamp))

\* C7 witness: a full-range window over readings given out of order.
C7_Witness ==
    /\ Selected
    /\ FullRange
    /\ \E i, j \in DOMAIN device_csv :
          i < j /\ DtLess(Instant(device_csv[j].Timestamp),
                          Instant(device_csv[i].Timestamp))

\* C8 as stated: the selection applied to its own output returns that
\* output unchanged (same rows, same order).
C8_Idempotent ==
    wpc = "reselected" =>
        /\ again_df.err = ""
        /\ again_df.df = person_device_df.df

\* Every row the first selection returned has a non-zero microsecond.
AllFractional ==
    \A i \in DOMAIN person_device_df.df : person_device_df.df[i].Timestamp.f # 0

\* C8 as amended: buildperson's selection applied to its own output returns
\* the same rows with the same sequence of timestamps; so does build_plot's
\* when every returned timestamp has a non-zero microsecond, and otherwise
\* it raises ValueError (str of such a datetime has no ".%f" part).
C8_IdempotentOnStrings ==
    wpc = "reselected" =>
        IF wcaller = "buildperson" \/ AllFractional
        THEN /\ again_df.err = ""
             /\ Len(again_df.df) = Len(person_device_df.df)
             /\ \A i \in DOMAIN again_df.df :
                   again_df.df[i].Timestamp = person_device_df.df[i].Timestamp
             /\ \A r \in Range(Readings(person_device_df.df)) :
                   Count(Readings(again_df.df), r) =
                       Count(Readings(person_device_df.df), r)
        ELSE again_df.err = "ValueError"

\* C8 witness: build_plot's selection returned two readings with non-zero
\* microseconds and was applied again.
C8_Witness ==
    /\ wpc = "reselected"
    /\ wcaller = "build_plot"
    /\ Len(person_device_df.df) = 2
    /\ AllFractional
    /\ again_df.err = ""

---------------------------------------------------------------------------
(* The accelerometer readers of organize_wearable_data.py.                 *)
(*                                                                         *)
(* A file is [name, lines].  A line is a record: [kind |-> "meta"] for a   *)
(* line of the vendor's preamble, [kind |-> "header"] for a column header, *)
(* and [kind |-> "data", t, x, y, z] for a row of values.  Raw axis values *)
(* are integers.  A float is held as an integer count of 2^-18 units:      *)
(* dividing a double by a power of two is exact, so are these counts.      *)

FloatUnit == 262144

\* float(x) of a raw axis value.
float(x) == x * FloatUnit

\* Python's x / n on floats, n a power of two.
Divide(v, n) == v \div n

\* The vendor factors: raw units per g.
ActigraphFactor == 512
E4Factor == 64
GENEActivFactor == 4
WaveletFactor == 64

\* A variant of drop_non_csv that leaves the header line among the rows.
DropNonCsvKeepHeader(lines, drop_rows, header_row) ==
    SubSeq(lines, drop_rows + 1, Len(lines))

\* organize_wearable_data.py 637-665: drop_non_csv.  readline() past the
\* end of the file returns the empty string.
drop_non_csv(lines, drop_rows, header_row) ==
    LET h == IF header_row THEN 1 ELSE 0
    IN  SubSeq(lines, drop_rows + h + 1, Len(lines))

\* A Timestamp cell that holds no value (NaN).
MissingTimestamp == [d |-> 0, s |-> 0, sep |-> "NaN", f |-> 0]

\* organize_wearable_data.py 61-87: actigraph_acc_data.
actigraph_acc_data(lines) ==
    LET df == drop_non_csv(lines, 10, TRUE)
    IN  [i \in DOMAIN df |->
            [Timestamp |-> datetimeint(df[i].t, ""),
             x |-> Divide(float(df[i].x), ActigraphFactor),
             y |-> Divide(float(df[i].y), ActigraphFactor),
             z |-> Divide(float(df[i].z), ActigraphFactor)]]

\* A variant of e4_timestamp that also converts the axes to g.
E4TimestampAndScale(df) ==
    LET start_time == df[1].x
        sample_rate == df[2].x
        new_df == SubSeq(df, 3, Len(df))
        n == Len(new_df)
    IN  [j \in 1..n |->
            [Timestamp |->
                IF j + 1 < n
                THEN strftime(fromtimestamp(start_time + (j + 1) * sample_rate), ".")
                ELSE MissingTimestamp,
             x |-> Divide(float(new_df[j].x), E4Factor),
             y |-> Divide(float(new_df[j].y), E4Factor),
             z |-> Divide(float(new_df[j].z), E4Factor)]]

\* organize_wearable_data.py 257-282: e4_timestamp.  new_df keeps the row
\* labels 2, 3, ... of df while the Series of timestamps is labelled
\* 0, 1, ...: the column assignment aligns on labels, so the row labelled k
\* receives new_index[k], and the last two rows receive NaN.
e4_timestamp(df) ==
    LET start_time == df[1].x
        sample_rate == df[2].x
        new_df == SubSeq(df, 3, Len(df))
        n == Len(new_df)
    IN  [j \in 1..n |->
            [Timestamp |->
                IF j + 1 < n
                THEN strftime(fromtimestamp(start_time + (j + 1) * sample_rate), ".")
                ELSE MissingTimestamp,
             x |-> float(new_df[j].x),
             y |-> float(new_df[j].y),
             z |-> float(new_df[j].z)]]

\* organize_wearable_data.py 389-413: geneactiv_acc_data.
geneactiv_acc_data(lines) ==
    LET df == drop_non_csv(lines, 100, FALSE)
    IN  [i \in DOMAIN df |->
            [Timestamp |-> datetimeint(df[i].t, ":"),
             x |-> Divide(float(df[i].x), GENEActivFactor),
             y |-> Divide(float(df[i].y), GENEActivFactor),
             z |-> Divide(float(df[i].z), GENEActivFactor)]]

\* organize_wearable_data.py 526-527: pd.read_csv of a Wavelet file; the
\* timestamp column holds milliseconds since the epoch.
wavelet_read_csv(lines) ==
    LET df == SubSeq(lines, 2, Len(lines))
    IN  [i \in DOMAIN df |->
            [Timestamp |-> df[i].t,
             x |-> float(df[i].x), y |-> float(df[i].y), z |-> float(df[i].z)]]

\* organize_wearable_data.py 535-537:
\* datetime.fromtimestamp(int(x)/1000).strftime("%Y-%m-%d %H:%M:%S.%f").
WaveletTimestamp(ms) ==
    strftime([d |-> (ms \div 1000) \div 86400, s |-> (ms \div 1000) % 86400,
              f |-> (ms % 1000) * 1000], ".")

\* The table one matching file contributes inside the loop of a reader.
FileTable(rd, lines) ==
    CASE rd = "actigraph_acc" -> actigraph_acc_data(lines)
      [] rd = "e4_acc" -> e4_timestamp(lines)
      [] rd = "geneactiv_acc" -> geneactiv_acc_data(lines)
      [] rd = "wavelet_acc" -> wavelet_read_csv(lines)

\* The exception that building the table of one file raises, or "" when
\* it returns.  A line of kind "short" is a data row cut before its z
\* field.  pd.DataFrame pads a short row with None up to the widest row;
\* under a header all rows short is a mismatch of widths (AssertionError),
\* and without a header no column 3 exists (KeyError), as no column 0
\* exists when there is no row at all.  The map over the timestamps (lines
\* 79, 410) comes before the map over the axes (lines 86, 412), where
\* float(None) is a TypeError.
FileError(rd, lines) ==
    LET df == IF rd = "actigraph_acc" THEN drop_non_csv(lines, 10, TRUE)
              ELSE drop_non_csv(lines, 100, FALSE)
        sep == IF rd = "actigraph_acc" THEN "" ELSE ":"
        short == {i \in DOMAIN df : df[i].kind = "short"}
    IN  IF rd \notin {"actigraph_acc", "geneactiv_acc"} THEN ""
        ELSE IF rd = "geneactiv_acc" /\ df = <<>> THEN "KeyError"
        ELSE IF rd = "actigraph_acc" /\ df # <<>> /\ short = DOMAIN df
             THEN "AssertionError"
        ELSE IF \E i \in DOMAIN df : ~Parses(df[i].t, sep) THEN "ValueError"
        ELSE IF rd = "geneactiv_acc" /\ short = DOMAIN df THEN "KeyError"
        ELSE IF short # {} THEN "TypeError"
        ELSE ""

\* Which accumulator a file name goes to: "acc" (acc_data, or
\* acc_data_black), "pink" (acc_data_pink), or "none".
\* organize_wearable_data.py 50, 205, 366, 376, 524.
Matches(rd, name) ==
    CASE rd = "actigraph_acc" -> IF name = "a_1sec.csv" THEN "acc" ELSE "none"
      [] rd = "e4_acc" -> IF name = "ACC.csv" THEN "acc" ELSE "none"
      [] rd = "geneactiv_acc" ->
            IF name = "Jon.csv" THEN "acc"
            ELSE IF name = "Arno.csv" THEN "pink" ELSE "none"
      [] rd = "wavelet_acc" -> IF name = "w.csv" THEN "acc" ELSE "none"

\* acc_data.empty.  On the class pd.DataFrame it is a property object,
\* which is true in a condition.
IsEmpty(acc) == acc.state # "table" \/ acc.rows = <<>>

\* A variant of Accumulate that keeps the table of the latest file only.
AccumulateLatest(acc, table) == [state |-> "table", rows |-> table]

\* organize_wearable_data.py 51-56, 206-213, 367-373, 525-532: the
\* accumulator after one matching file.
Accumulate(acc, table) ==
    IF IsEmpty(acc) THEN [state |-> "table", rows |-> table]
    ELSE [state |-> "table", rows |-> acc.rows \o table]

\* What follows the loop, before save_df: e4_acc converts the axes
\* (216-218), wavelet_acc formats the timestamps and converts the axes
\* (535-546).
AfterLoop(rd, rows) ==
    CASE rd = "e4_acc" ->
            [i \in DOMAIN rows |->
                [rows[i] EXCEPT !.x = Divide(@, E4Factor),
                                !.y = Divide(@, E4Factor),
                                !.z = Divide(@, E4Factor)]]
      [] rd = "wavelet_acc" ->
            [i \in DOMAIN rows |->
                [Timestamp |-> WaveletTimestamp(rows[i].Timestamp),
                 x |-> Divide(rows[i].x, WaveletFactor),
                 y |-> Divide(rows[i].y, WaveletFactor),
                 z |-> Divide(rows[i].z, WaveletFactor)]]
      [] OTHER -> rows

\* The raw rows a vendor file may hold, as (seconds, x, y, z).
RawRows ==
    { [t |-> 0, x |-> 512, y |-> -64, z |-> 4],
      [t |-> 1, x |-> 1, y |-> 0, z |-> 63] }

Meta(n) == [i \in 1..n |-> [kind |-> "meta"]]

\* The lines of a vendor file with the given raw rows.
VendorLines(rd, raw) ==
    CASE rd = "actigraph_acc" ->
            Meta(10) \o <<[kind |-> "header"]>> \o
            [i \in DOMAIN raw |->
                [kind |-> "data", t |-> strftime(fromtimestamp(raw[i].t), ""),
                 x |-> raw[i].x, y |-> raw[i].y, z |-> raw[i].z]]
      [] rd = "e4_acc" ->
            <<[kind |-> "data", t |-> 0, x |-> 1000, y |-> 1000, z |-> 1000],
              [kind |-> "data", t |-> 0, x |-> 32, y |-> 32, z |-> 32]>> \o
            [i \in DOMAIN raw |->
                [kind |-> "data", t |-> 0,
                 x |-> raw[i].x, y |-> raw[i].y, z |-> raw[i].z]]
      [] rd = "geneactiv_acc" ->
            Meta(100) \o
            [i \in DOMAIN raw |->
                [kind |-> "data", t |-> strftime(fromtimestamp(raw[i].t), ":"),
                 x |-> raw[i].x, y |-> raw[i].y, z |-> raw[i].z]]
      [] rd = "wavelet_acc" ->
            <<[kind |-> "header"]>> \o
            [i \in DOMAIN raw |->
                [kind |-> "data", t |-> raw[i].t * 1000 + 500,
                 x |-> raw[i].x, y |-> raw[i].y, z |-> raw[i].z]]

\* The file names of a vendor directory: those the reader takes, and one
\* it does not.
FileNames(rd) ==
    CASE rd = "actigraph_acc" -> {"a_1sec.csv", "a.agd"}
      [] rd = "e4_acc" -> {"ACC.csv", "BVP.csv"}
      [] rd = "geneactiv_acc" -> {"Jon.csv", "Arno.csv", "readme.txt"}
      [] rd = "wavelet_acc" -> {"w.csv", "w.txt"}

\* The files a vendor directory may hold.  A file the reader does not take
\* is never opened: its lines are left out.
VendorFiles(rd) ==
    { [name |-> nm, lines |-> VendorLines(rd, raw)] :
        nm \in {m \in FileNames(rd) : Matches(rd, m) # "none"},
        raw \in UNION {[1..n -> RawRows] : n \in 0..MaxFileRows} }
    \cup
    { [name |-> nm, lines |-> <<>>] :
        nm \in {m \in FileNames(rd) : Matches(rd, m) = "none"} }

Readers == {"actigraph_acc", "e4_acc", "geneactiv_acc", "wavelet_acc"}

\* The device names the reader saves under.
DeviceOf(rd) ==
    CASE rd = "actigraph_acc" -> "Actigraph"
      [] rd = "e4_acc" -> "E4"
      [] rd = "geneactiv_acc" -> "GENEActiv_black"
      [] rd = "wavelet_acc" -> "Wavelet"

InitReaders ==
    /\ reader \in Readers
    /\ rpc = "loop"
    /\ directory \in UNION {[1..n -> VendorFiles(reader)] : n \in 0..MaxFiles}
    /\ todo = directory
    /\ acc_data = IF reader = "actigraph_acc"
                  THEN [state |-> "class", rows |-> <<>>]
                  ELSE NoFrame
    /\ acc_data_pink = NoFrame
    /\ saved = <<>>
    /\ PeopleIdle
    /\ WindowIdle
    /\ ShiftIdle
    /\ CorrIdle
    /\ DriverIdle
    /\ ParseIdle
    /\ PivotIdle
    /\ PlotIdle
    /\ PipelineIdle
    /\ ConvertIdle
    /\ LoopIdle
    /\ XcorrIdle
    /\ DropIdle
    /\ ChartIdle
    /\ FrameIdle
    /\ SettingsIdle

\* One turn of the loop over os.listdir on a file the reader takes.
ReadFile ==
    /\ rpc = "loop"
    /\ todo # <<>>
    /\ Matches(reader, Head(todo).name) # "none"
    /\ FileError(reader, Head(todo).lines) = ""
    /\ IF Matches(reader, Head(todo).name) = "acc"
       THEN /\ acc_data' = Accumulate(acc_data, FileTable(reader, Head(todo).lines))
            /\ UNCHANGED acc_data_pink
       ELSE /\ acc_data_pink' =
                   Accumulate(acc_data_pink, FileTable(reader, Head(todo).lines))
            /\ UNCHANGED acc_data
    /\ todo' = Tail(todo)
    /\ UNCHANGED <<reader, rpc, directory, saved>>
    /\ UNCHANGED notReaderVars

\* One turn of the loop on a file the reader takes and whose table cannot
\* be built: the exception leaves the reader.
ReadFileRaises ==
    /\ rpc = "loop"
    /\ todo # <<>>
    /\ Matches(reader, Head(todo).name) # "none"
    /\ FileError(reader, Head(todo).lines) # ""
    /\ rpc' = FileError(reader, Head(todo).lines)
    /\ UNCHANGED <<reader, directory, todo, acc_data, acc_data_pink, saved>>
    /\ UNCHANGED notReaderVars

\* One turn of the loop on a file the reader does not take.
SkipFile ==
    /\ rpc = "loop"
    /\ todo # <<>>
    /\ Matches(reader, Head(todo).name) = "none"
    /\ todo' = Tail(todo)
    /\ UNCHANGED <<reader, rpc, directory, acc_data, acc_data_pink, saved>>
    /\ UNCHANGED notReaderVars

\* What follows the loop fails: save_df on the class pd.DataFrame
\* (actigraph_acc with no file taken), or a column lookup on a DataFrame
\* without columns (e4_acc 218, wavelet_acc 535 with no file taken).
FailsAfterLoop ==
    /\ reader \in {"actigraph_acc", "e4_acc", "wavelet_acc"}
    /\ acc_data.state # "table"

ReaderRaises ==
    /\ rpc = "loop"
    /\ todo = <<>>
    /\ FailsAfterLoop
    /\ rpc' = IF reader = "actigraph_acc" THEN "AttributeError" ELSE "KeyError"
    /\ UNCHANGED <<reader, directory, todo, acc_data, acc_data_pink, saved>>
    /\ UNCHANGED notReaderVars

\* What follows the loop, and save_df.
ReaderSaves ==
    /\ rpc = "loop"
    /\ todo = <<>>
    /\ ~FailsAfterLoop
    /\ saved' =
          IF reader = "geneactiv_acc"
          THEN <<[device |-> "GENEActiv_black", rows |-> acc_data.rows],
                 [device |-> "GENEActiv_pink", rows |-> acc_data_pink.rows]>>
          ELSE <<[device |-> DeviceOf(reader),
                  rows |-> AfterLoop(reader, acc_data.rows)]>>
    /\ rpc' = "saved"
    /\ UNCHANGED <<reader, directory, todo, acc_data, acc_data_pink>>
    /\ UNCHANGED notReaderVars

NextReaders ==
    \/ ReadFile
    \/ ReadFileRaises
    \/ SkipFile
    \/ ReaderRaises
    \/ ReaderSaves

SpecReaders == InitReaders /\ [][NextReaders]_vars

---------------------------------------------------------------------------
(* plot_normalized_vector_lengths.baseshift_and_renormalize                *)
(*                                                                         *)
(* Floats are exact fractions: the column holds small integers, and the    *)
(* fractions that arise are the ones float arithmetic approximates.        *)

RECURSIVE GCD(_, _)
GCD(a, b) == IF b = 0 THEN a ELSE GCD(b, a % b)

Abs(a) == IF a < 0 THEN -a ELSE a

\* The float n/d, d > 0.
Float(n, d) ==
    LET g == GCD(Abs(n), d)
    IN  [num |-> n \div g, den |-> d \div g]

isnan(q) == q.num = 0 /\ q.den = 0

\* a - b and a + b on floats: nan if either is nan.
Sub(a, b) ==
    IF isnan(a) \/ isnan(b) THEN nan
    ELSE Float(a.num * b.den - b.num * a.den, a.den * b.den)

Add(a, b) ==
    IF isnan(a) \/ isnan(b) THEN nan
    ELSE Float(a.num * b.den + b.num * a.den, a.den * b.den)

\* a > b on floats: false if either is nan.
Gt(a, b) == ~isnan(a) /\ ~isnan(b) /\ a.num * b.den > b.num * a.den

\* a / b as pandas divides a float column: 0/0 is nan, x/0 is infinite
\* ([num |-> 1 or -1, den |-> 0]), no exception.
TrueDiv(a, b) ==
    IF isnan(a) \/ isnan(b) THEN nan
    ELSE IF b.num = 0
         THEN IF a.num = 0 THEN nan
              ELSE [num |-> IF a.num > 0 THEN 1 ELSE -1, den |-> 0]
    ELSE IF b.num > 0 THEN Float(a.num * b.den, b.num * a.den)
    ELSE Float(-(a.num * b.den), -(b.num * a.den))

\* The floats of s that are present, in ascending order.
RECURSIVE SortFloats(_)
SortFloats(s) ==
    IF s = <<>> THEN <<>>
    ELSE LET rest == SortFloats(Tail(s))
             x == Head(s)
             below == SelectSeq(rest, LAMBDA v : Gt(x, v))
             above == SelectSeq(rest, LAMBDA v : ~Gt(x, v))
         IN  below \o <<x>> \o above

\* np.nanmedian: the median of the values that are not nan; the mean of the
\* two middle values when their number is even; nan when there is none.
nanmedian(s) ==
    LET sorted == SortFloats(SelectSeq(s, LAMBDA v : ~isnan(v)))
        n == Len(sorted)
    IN  IF n = 0 THEN nan
        ELSE IF n % 2 = 1 THEN sorted[(n + 1) \div 2]
        ELSE TrueDiv(Add(sorted[n \div 2], sorted[n \div 2 + 1]), Float(2, 1))

\* Python's max(a, b): a, unless b > a.
max2(a, b) == IF Gt(b, a) THEN b ELSE a

\* Python's max(iterable) from the i-th item on, cur the largest so far.
RECURSIVE MaxFrom(_, _, _)
MaxFrom(s, i, cur) ==
    IF i > Len(s) THEN cur
    ELSE MaxFrom(s, i + 1, max2(cur, s[i]))

\* Python's max(iterable) of a non-empty iterable: the first item is the
\* largest so far, and a later item replaces it only if it compares
\* greater.
max(s) == MaxFrom(s, 2, s[1])

\* plot_normalized_vector_lengths.py 98-99.
Shifted(col, base) == [i \in DOMAIN col |-> max2(Sub(col[i], base), Float(0, 1))]

\* plot_normalized_vector_lengths.py 101-102.
Renormalized(col, dmax) == [i \in DOMAIN col |-> TrueDiv(col[i], dmax)]

\* The values a normalized_vector_length column may hold.
ColumnValues == {Float(2, 1), Float(3, 1), Float(5, 1), Float(8, 1), nan}

InitShift ==
    /\ bpc = "call"
    /\ column \in UNION {[1..n -> ColumnValues] : n \in 0..MaxColumn}
    /\ baseline = nan
    /\ shifted = <<>>
    /\ datamax = nan
    /\ data = column
    /\ PeopleIdle
    /\ WindowIdle
    /\ ReaderIdle
    /\ CorrIdle
    /\ DriverIdle
    /\ ParseIdle
    /\ PivotIdle
    /\ PlotIdle
    /\ PipelineIdle
    /\ ConvertIdle
    /\ LoopIdle
    /\ XcorrIdle
    /\ DropIdle
    /\ ChartIdle
    /\ FrameIdle
    /\ SettingsIdle

\* baseshift_and_renormalize on a column with at least one row.
BaseshiftReturns ==
    /\ bpc = "call"
    /\ column # <<>>
    /\ baseline' = nanmedian(column)
    /\ shifted' = Shifted(column, baseline')
    /\ datamax' = max(shifted')
    /\ data' = Renormalized(shifted', datamax')
    /\ bpc' = "returned"
    /\ UNCHANGED column
    /\ UNCHANGED notShiftVars

\* baseshift_and_renormalize on a column without rows: max() of an empty
\* sequence raises ValueError at line 100.
BaseshiftRaises ==
    /\ bpc = "call"
    /\ column = <<>>
    /\ baseline' = nanmedian(column)
    /\ shifted' = Shifted(column, baseline')
    /\ bpc' = "ValueError"
    /\ UNCHANGED <<column, datamax, data>>
    /\ UNCHANGED notShiftVars

NextShift ==
    \/ BaseshiftReturns
    \/ BaseshiftRaises

SpecShift == InitShift /\ [][NextShift]_vars

---------------------------------------------------------------------------
(* Properties of the readers and of baseshift_and_renormalize.             *)

\* The raw rows of a vendor file: its data lines, without the two leading
\* rows (start time, sample rate) of an E4 file.
RawData(rd, lines) ==
    LET rows == SelectSeq(lines, LAMBDA l : l.kind = "data")
    IN  IF rd = "e4_acc" THEN SubSeq(rows, 3, Len(rows)) ELSE rows

\* The raw rows of the first n files of the directory that go to the
\* accumulator `which`, in listing order.
RECURSIVE RawOfFiles(_, _)
RawOfFiles(which, n) ==
    IF n = 0 THEN <<>>
    ELSE RawOfFiles(which, n - 1) \o
         (IF Matches(reader, directory[n].name) = which
          THEN RawData(reader, directory[n].lines)
          ELSE <<>>)

\* The factor the readers are to divide by.
VendorFactor(rd) ==
    CASE rd = "actigraph_acc" -> 512
      [] rd = "e4_acc" -> 64
      [] rd = "geneactiv_acc" -> 4
      [] rd = "wavelet_acc" -> 64

\* C9: when a reader has saved its table, the table has one row for every
\* raw row of every file the reader takes, first file or later, and each
\* axis value is the raw value divided exactly once by the vendor factor
\* (Actigraph 512, E4 64, GENEActiv 4, Wavelet 64): multiplying it by the
\* factor gives the raw value back, and the sum of two converted values is
\* the converted sum of the raw values.
C9_DividedOnce ==
    rpc = "saved" =>
        \A k \in DOMAIN saved :
            LET which == IF saved[k].device = "GENEActiv_pink"
                         THEN "pink" ELSE "acc"
                raw == RawOfFiles(which, Len(directory))
                rows == saved[k].rows
                F == VendorFactor(reader)
            IN  /\ Len(rows) = Len(raw)
                /\ \A i \in DOMAIN rows :
                      /\ rows[i].x * F = float(raw[i].x)
                      /\ rows[i].y * F = float(raw[i].y)
                      /\ rows[i].z * F = float(raw[i].z)
                /\ \A i, j \in DOMAIN rows :
                      (rows[i].x + rows[j].x) * F = float(raw[i].x + raw[j].x)

\* A reader has saved a table built from two files it takes, each with raw
\* rows, some of them with a value that is not zero.
C9_Witness ==
    /\ rpc = "saved"
    /\ Len(directory) = 2
    /\ \A n \in 1..2 :
          /\ Matches(reader, directory[n].name) = "acc"
          /\ RawData(reader, directory[n].lines) # <<>>
    /\ Len(saved[1].rows) >= 2
    /\ saved[1].rows[Len(saved[1].rows)].x # 0

\* The values of a column that are present.
Present(s) == SelectSeq(s, LAMBDA v : ~isnan(v))

\* m is a median of the values of s that are present: at least half of them
\* are no larger, and at least half are no smaller.
IsMedian(m, s) ==
    LET P == Present(s)
    IN  /\ ~isnan(m)
        /\ 2 * Cardinality({i \in DOMAIN P : ~Gt(P[i], m)}) >= Len(P)
        /\ 2 * Cardinality({i \in DOMAIN P : ~Gt(m, P[i])}) >= Len(P)

\* v = max(x - m, 0) on fractions.
IsShift(v, x, m) ==
    IF Gt(x, m)
    THEN /\ v.den > 0
         /\ v.num * x.den * m.den = (x.num * m.den - m.num * x.den) * v.den
    ELSE v = [num |-> 0, den |-> 1]

\* M is the largest of the values of s that are present.
IsLargest(M, s) ==
    /\ \E i \in DOMAIN s : s[i] = M /\ ~isnan(M)
    /\ \A i \in DOMAIN s : ~Gt(s[i], M)

\* C10: when baseshift_and_renormalize returns, every value x of the column
\* that is present has become max(x - m, 0) / M, with m the median of the
\* values present and M the largest shifted value (a quotient 0 / 0 is
\* missing); the column [2,3,5,8] has median 4, is shifted to [0,0,1,4] and
\* returned as [0,0,0.25,1].
C10_ShiftAndRenormalize ==
    bpc = "returned" =>
        /\ Present(column) # <<>> =>
              /\ IsMedian(baseline, column)
              /\ \A i \in DOMAIN column :
                    ~isnan(column[i]) => IsShift(shifted[i], column[i], baseline)
              /\ \E M \in {shifted[i] : i \in DOMAIN shifted} :
                    /\ IsLargest(M, shifted)
                    /\ \A i \in DOMAIN column :
                          ~isnan(column[i]) =>
                              IF M.num = 0 THEN isnan(data[i])
                              ELSE /\ data[i].den > 0
                                   /\ data[i].num * M.num * shifted[i].den
                                        = shifted[i].num * M.den * data[i].den
        /\ column = <<[num |-> 2, den |-> 1], [num |-> 3, den |-> 1],
                      [num |-> 5, den |-> 1], [num |-> 8, den |-> 1]>> =>
              /\ baseline = [num |-> 4, den |-> 1]
              /\ shifted = <<[num |-> 0, den |-> 1], [num |-> 0, den |-> 1],
                             [num |-> 1, den |-> 1], [num |-> 4, den |-> 1]>>
              /\ data = <<[num |-> 0, den |-> 1], [num |-> 0, den |-> 1],
                          [num |-> 1, den |-> 4], [num |-> 1, den |-> 1]>>

---------------------------------------------------------------------------
(* The range of the renormalized column.                                   *)

\* C11: when baseshift_and_renormalize returns from a column that is not
\* empty and has no missing value (the values of the model are all
\* non-negative, and some columns hold one value throughout), every value
\* of the returned column lies in [0, 1], some value is 0 and some value
\* is exactly 1.
C11_UnitRange ==
    (bpc = "returned" /\ \A i \in DOMAIN column : ~isnan(column[i])) =>
        /\ \A i \in DOMAIN data :
              /\ data[i].den > 0
              /\ data[i].num >= 0
              /\ data[i].num <= data[i].den
        /\ \E i \in DOMAIN data : data[i] = [num |-> 0, den |-> 1]
        /\ \E i \in DOMAIN data : data[i] = [num |-> 1, den |-> 1]

---------------------------------------------------------------------------
(* The correlation step of plot_normalized_vector_lengths.linechart,       *)
(* lines 307-314.  One series per column of plot_df; the columns of a      *)
(* pivoted table are distinct device names in sorted order.                *)

\* The device series of a chart: the devices whose indices are in S, in the
\* (sorted) order of config.devices.
SeriesOf(S) == [k \in 1..Cardinality(S) |-> devices[SortedSeq(S)[k]]]

\* A variant of the deletion that drops the first series.
DelFirst(s) == Tail(s)

\* del esses[-1]
DelLast(s) == SubSeq(s, 1, Len(s) - 1)

InitCorr ==
    /\ cpc = "loop"
    /\ plot_columns \in
          {SeriesOf(S) : S \in {T \in SUBSET DOMAIN devices :
                                   /\ Cardinality(T) >= 1
                                   /\ Cardinality(T) <= MaxSeries}}
    /\ esses = plot_columns
    /\ ci = 1
    /\ calls = <<>>
    /\ PeopleIdle
    /\ WindowIdle
    /\ ReaderIdle
    /\ ShiftIdle
    /\ DriverIdle
    /\ ParseIdle
    /\ PivotIdle
    /\ PlotIdle
    /\ PipelineIdle
    /\ ConvertIdle
    /\ LoopIdle
    /\ XcorrIdle
    /\ DropIdle
    /\ ChartIdle
    /\ FrameIdle
    /\ SettingsIdle

\* One turn of the for loop inside the while loop: cross_correlate(s,
\* esses[-1], ...).  The test i < len(esses) holds for every i that
\* enumerate yields.
CorrelateWithLast ==
    /\ cpc = "loop"
    /\ Len(esses) > 2
    /\ ci <= Len(esses)
    /\ calls' = Append(calls, <<esses[ci], esses[Len(esses)]>>)
    /\ ci' = ci + 1
    /\ UNCHANGED <<cpc, plot_columns, esses>>
    /\ UNCHANGED notCorrVars

\* The for loop is exhausted: del esses[-1], and back to the while test.
DiscardLast ==
    /\ cpc = "loop"
    /\ Len(esses) > 2
    /\ ci > Len(esses)
    /\ esses' = DelLast(esses)
    /\ ci' = 1
    /\ UNCHANGED <<cpc, plot_columns, calls>>
    /\ UNCHANGED notCorrVars

\* The while loop is over with two series: cross_correlate(esses[0],
\* esses[1], ...).
CorrelateLastTwo ==
    /\ cpc = "loop"
    /\ Len(esses) = 2
    /\ calls' = Append(calls, <<esses[1], esses[2]>>)
    /\ cpc' = "done"
    /\ UNCHANGED <<plot_columns, esses, ci>>
    /\ UNCHANGED notCorrVars

\* The while loop is over with fewer than two series: esses[1] is out of
\* range.
CorrelateRaises ==
    /\ cpc = "loop"
    /\ Len(esses) < 2
    /\ cpc' = "IndexError"
    /\ UNCHANGED <<plot_columns, esses, ci, calls>>
    /\ UNCHANGED notCorrVars

NextCorr ==
    \/ CorrelateWithLast
    \/ DiscardLast
    \/ CorrelateLastTwo
    \/ CorrelateRaises

SpecCorr == InitCorr /\ [][NextCorr]_vars

\* The position of a device series among the columns.
ColumnOf(name) == CHOOSE k \in DOMAIN plot_columns : plot_columns[k] = name

\* C12: when the correlation step of a chart of two or more device series
\* is done, every call but the closing one correlated a series against the
\* series that was last at the time (so no call has its second series
\* before its first), and every unordered pair of distinct series was
\* passed to cross_correlate exactly once.
C12_EveryPairOnce ==
    (cpc = "done" /\ Len(plot_columns) >= 2) =>
        /\ \A i \in DOMAIN calls :
              ColumnOf(calls[i][1]) <= ColumnOf(calls[i][2])
        /\ \A a, b \in DOMAIN plot_columns :
              a < b =>
                 Cardinality({i \in DOMAIN calls :
                     {calls[i][1], calls[i][2]} =
                        {plot_columns[a], plot_columns[b]}}) = 1

\* The correlation step of a chart of three or more series is done: the
\* last series was discarded at least once.
C12_Witness ==
    /\ cpc = "done"
    /\ Len(plot_columns) >= 3
    /\ Len(esses) = 2
    /\ Len(calls) >= 4

---------------------------------------------------------------------------
(* plot_normalized_vector_lengths.build_plot (138-197) and linechart       *)
(* (269-314) on the selections of the device files.                        *)
(*                                                                         *)
(* A selection is [device, rows]: the rows [Timestamp, value] of the file  *)
(* of a device that lie in the window (158-160), in the ascending order of *)
(* Timestamp that sort_values gives them (150); value is the               *)
(* normalized_vector_length.  The selections of a build are those of the   *)
(* device files that exist (147), in the order of plot_devices.            *)

\* The device names of S in sorted order (config.devices is sorted).
SortDevices(S) ==
    LET idx == {k \in DOMAIN devices : devices[k] \in S}
    IN  [k \in 1..Cardinality(idx) |-> devices[SortedSeq(idx)[k]]]

\* The place of the first selection without rows, 0 when there is none:
\* the device loop (142-170) stops there, at the max() of line 100.
FirstEmpty(sels) ==
    IF \E k \in DOMAIN sels : sels[k].rows = <<>>
    THEN CHOOSE k \in DOMAIN sels :
            /\ sels[k].rows = <<>>
            /\ \A j \in 1..(k - 1) : sels[j].rows # <<>>
    ELSE 0

\* DataFrame.pivot(index="Timestamp", columns="device") (186): ValueError
\* when two rows of a device have the same Timestamp.
DuplicateEntries(sels) ==
    \E k \in DOMAIN sels :
        \E i, j \in DOMAIN sels[k].rows :
            i # j /\ sels[k].rows[i].Timestamp = sels[k].rows[j].Timestamp

\* The normalized_vector_length column of a selection.
ColumnOfRows(rows) == [i \in DOMAIN rows |-> rows[i].value]

\* baseshift_and_renormalize (97-103) on a column with at least one row.
baseshift_and_renormalize(col) ==
    LET moved == Shifted(col, nanmedian(col))
    IN  Renormalized(moved, max(moved))

\* linechart 269-275: one series per column of the pivoted table, the
\* columns in sorted order, each without its missing values (dropna).
Esses(sels, adjusted) ==
    LET names == SortDevices({sels[k].device : k \in DOMAIN sels})
        rowsOf(name) ==
            sels[CHOOSE k \in DOMAIN sels : sels[k].device = name].rows
    IN  [n \in DOMAIN names |->
            [name |-> names[n],
             values |-> Present(
                 IF adjusted
                 THEN baseshift_and_renormalize(ColumnOfRows(rowsOf(names[n])))
                 ELSE ColumnOfRows(rowsOf(names[n])))]]

\* linechart 307-314: the (s1, s2) of the cross_correlate calls, for two
\* or more series.
RECURSIVE CrossCorrelations(_)
CrossCorrelations(s) ==
    IF Len(s) > 2
    THEN [i \in 1..Len(s) |-> <<s[i], s[Len(s)]>>] \o CrossCorrelations(DelLast(s))
    ELSE << <<s[1], s[2]>> >>

\* cross_correlate 211: np.correlate raises ValueError when one of the two
\* series has no value.  The number of calls that return before the first
\* that raises.
CallsReturned(s) ==
    LET ordered == CrossCorrelations(s)
        raising == {i \in DOMAIN ordered :
                       ordered[i][1].values = <<>> \/ ordered[i][2].values = <<>>}
    IN  IF raising = {} THEN Len(ordered)
        ELSE (CHOOSE i \in raising : \A j \in raising : i <= j) - 1

\* How linechart ends once the images are saved (307-314): esses[1] raises
\* IndexError when the chart has a single series, np.correlate ValueError.
LinechartOutcome(s) ==
    IF Len(s) < 2 THEN "IndexError"
    ELSE IF CallsReturned(s) < Len(CrossCorrelations(s)) THEN "ValueError"
    ELSE "returns"

\* The files one linechart writes: svg_out and png_out (253-256, 302-305),
\* named after the plot label, and one file per cross_correlate call that
\* returns (213-214), named after the two series.
ImageFiles(label, suffix) == << <<"svg", label, suffix>>, <<"png", label, suffix>> >>

CorrelationFiles(s) ==
    IF Len(s) < 2 THEN <<>>
    ELSE [i \in 1..CallsReturned(s) |->
            <<"correlation.csv", CrossCorrelations(s)[i][1].name,
              CrossCorrelations(s)[i][2].name>>]

---------------------------------------------------------------------------
(* The main loops: chart_data.main (24-28) over the person-wrists and      *)
(* plot_normalized_vector_lengths.main (69-81) over the plot tuples.       *)
(*                                                                         *)
(* A unit of work is given by the device files it loads: for each, the     *)
(* selection of the window.                                                *)

\* How buildperson ends: min(person_device_df.x) at line 77 raises
\* ValueError on a selection without rows, and so does the pivot of line
\* 92 on two rows of a device with the same Timestamp.
BuildpersonOutcome(unit) ==
    IF \E k \in DOMAIN unit : unit[k].rows = <<>> THEN "ValueError"
    ELSE IF DuplicateEntries(unit) THEN "ValueError"
    ELSE "returns"

\* How build_plot ends.  Without a device file csv_df stays empty and
\* build_plot returns.  baseshift_and_renormalize raises ValueError on a
\* selection without rows (line 100) and the pivot of line 186 on a
\* duplicate Timestamp; each of the two linechart calls (191, 192) raises
\* IndexError at line 313 when the chart has a single device series and
\* ValueError at line 211 when a series has no value left; and the call of
\* write_csv at line 194 passes the keyword normal, which
\* chart_data.write_csv does not take: TypeError.
BuildPlotOutcome(unit) ==
    IF unit = <<>> THEN "returns"
    ELSE IF FirstEmpty(unit) # 0 THEN "ValueError"
    ELSE IF DuplicateEntries(unit) THEN "ValueError"
    ELSE IF LinechartOutcome(Esses(unit, FALSE)) # "returns"
         THEN LinechartOutcome(Esses(unit, FALSE))
    ELSE IF LinechartOutcome(Esses(unit, TRUE)) # "returns"
         THEN LinechartOutcome(Esses(unit, TRUE))
    ELSE "TypeError"

\* The selections of one device file: up to two readings in ascending
\* order of Timestamp, the first at the start of the window.
UnitRows ==
    {<<>>}
    \cup { <<[Timestamp |-> 1, value |-> v]>> : v \in {Float(2, 1), Float(3, 1)} }
    \cup { <<[Timestamp |-> 1, value |-> v], [Timestamp |-> t, value |-> w]>> :
             v \in {Float(2, 1), Float(3, 1)}, w \in {Float(2, 1), Float(3, 1)},
             t \in {1, 2} }

\* The units of work: the selections of the device files found.
Units ==
    UNION { { [k \in 1..n |-> [device |-> devices[k], rows |-> r[k]]] :
                r \in [1..n -> UnitRows] } : n \in 0..MaxUnitDevices }

InitDriver ==
    /\ driver \in {"chart_data", "plot_normalized_vector_lengths"}
    /\ dpc = "loop"
    /\ units \in UNION {[1..n -> Units] : n \in 0..MaxUnits}
    /\ di = 1
    /\ outcomes = <<>>
    /\ PeopleIdle
    /\ WindowIdle
    /\ ReaderIdle
    /\ ShiftIdle
    /\ CorrIdle
    /\ ParseIdle
    /\ PivotIdle
    /\ PlotIdle
    /\ PipelineIdle
    /\ ConvertIdle
    /\ LoopIdle
    /\ XcorrIdle
    /\ DropIdle
    /\ ChartIdle
    /\ FrameIdle
    /\ SettingsIdle

\* chart_data.main, line 28: buildperson returns.
BuildpersonReturns ==
    /\ driver = "chart_data"
    /\ dpc = "loop"
    /\ di <= Len(units)
    /\ BuildpersonOutcome(units[di]) = "returns"
    /\ outcomes' = Append(outcomes, "returns")
    /\ di' = di + 1
    /\ UNCHANGED <<driver, dpc, units>>
    /\ UNCHANGED notDriverVars

\* chart_data.main, line 28: buildperson raises; main has no handler and
\* the exception leaves main.
BuildpersonRaises ==
    /\ driver = "chart_data"
    /\ dpc = "loop"
    /\ di <= Len(units)
    /\ BuildpersonOutcome(units[di]) # "returns"
    /\ outcomes' = Append(outcomes, BuildpersonOutcome(units[di]))
    /\ dpc' = BuildpersonOutcome(units[di])
    /\ UNCHANGED <<driver, units, di>>
    /\ UNCHANGED notDriverVars

\* plot_normalized_vector_lengths.main, lines 76-78: build_plot returns.
BuildPlotReturns ==
    /\ driver = "plot_normalized_vector_lengths"
    /\ dpc = "loop"
    /\ di <= Len(units)
    /\ BuildPlotOutcome(units[di]) = "returns"
    /\ outcomes' = Append(outcomes, "returns")
    /\ di' = di + 1
    /\ UNCHANGED <<driver, dpc, units>>
    /\ UNCHANGED notDriverVars

\* plot_normalized_vector_lengths.main, lines 79-81: build_plot raises, the
\* bare except prints the failure and the loop goes on.
BuildPlotFails ==
    /\ driver = "plot_normalized_vector_lengths"
    /\ dpc = "loop"
    /\ di <= Len(units)
    /\ BuildPlotOutcome(units[di]) # "returns"
    /\ outcomes' = Append(outcomes, BuildPlotOutcome(units[di]))
    /\ di' = di + 1
    /\ UNCHANGED <<driver, dpc, units>>
    /\ UNCHANGED notDriverVars

\* The for loop of main is exhausted.
DriverDone ==
    /\ dpc = "loop"
    /\ di > Len(units)
    /\ dpc' = "done"
    /\ UNCHANGED <<driver, units, di, outcomes>>
    /\ UNCHANGED notDriverVars

NextDriver ==
    \/ BuildpersonReturns
    \/ BuildpersonRaises
    \/ BuildPlotReturns
    \/ BuildPlotFails
    \/ DriverDone

SpecDriver == InitDriver /\ [][NextDriver]_vars

\* C13: when a run of either main has ended, every person-wrist or plot
\* tuple has been processed, whether or not building an earlier one raised.
C13_NoAbort ==
    dpc # "loop" => Len(outcomes) = Len(units)

---------------------------------------------------------------------------
(* actigraph_acc_data and geneactiv_acc_data on one vendor file whose data *)
(* rows may be malformed.                                                  *)

\* The rows of a vendor export: well formed ("ok"), with a timestamp in
\* another format than the reader's ("timestamp"), or cut before the z
\* field ("fields").
ExportRows ==
    { [t |-> r.t, x |-> r.x, y |-> r.y, z |-> r.z, form |-> "ok"] :
        r \in RawRows }
    \cup
    { [t |-> 2, x |-> 8, y |-> 8, z |-> 8, form |-> "timestamp"],
      [t |-> 3, x |-> 16, y |-> 16, z |-> 0, form |-> "fields"] }

\* The text of the timestamp of an export row: in the format of the
\* reader, or, malformed, with the fraction after a ".".
ExportTimestamp(rd, row) ==
    strftime(fromtimestamp(row.t),
             IF row.form = "timestamp" THEN "."
             ELSE IF rd = "actigraph_acc" THEN "" ELSE ":")

\* The lines of the vendor file with the given export rows.
ExportLines(rd, rows) ==
    (IF rd = "actigraph_acc" THEN Meta(10) \o <<[kind |-> "header"]>>
     ELSE Meta(100)) \o
    [i \in DOMAIN rows |->
        [kind |-> IF rows[i].form = "fields" THEN "short" ELSE "data",
         t |-> ExportTimestamp(rd, rows[i]),
         x |-> rows[i].x, y |-> rows[i].y, z |-> rows[i].z]]

InitParse ==
    /\ parse_fn \in {"actigraph_acc", "geneactiv_acc"}
    /\ parse_pc = "call"
    /\ open_csv \in
          {ExportLines(parse_fn, rows) :
              rows \in UNION {[1..n -> ExportRows] : n \in 0..MaxExportRows}}
    /\ returned_df = <<>>
    /\ PeopleIdle
    /\ WindowIdle
    /\ ReaderIdle
    /\ ShiftIdle
    /\ CorrIdle
    /\ DriverIdle
    /\ PivotIdle
    /\ PlotIdle
    /\ PipelineIdle
    /\ ConvertIdle
    /\ LoopIdle
    /\ XcorrIdle
    /\ DropIdle
    /\ ChartIdle
    /\ FrameIdle
    /\ SettingsIdle

\* The function builds its table and returns it.
AccDataReturns ==
    /\ parse_pc = "call"
    /\ FileError(parse_fn, open_csv) = ""
    /\ returned_df' = FileTable(parse_fn, open_csv)
    /\ parse_pc' = "returned"
    /\ UNCHANGED <<parse_fn, open_csv>>
    /\ UNCHANGED notParseVars

\* The function raises; nothing catches the exception in the reader.
AccDataRaises ==
    /\ parse_pc = "call"
    /\ FileError(parse_fn, open_csv) # ""
    /\ parse_pc' = FileError(parse_fn, open_csv)
    /\ UNCHANGED <<parse_fn, open_csv, returned_df>>
    /\ UNCHANGED notParseVars

NextParse ==
    \/ AccDataReturns
    \/ AccDataRaises

SpecParse == InitParse /\ [][NextParse]_vars

\* The data rows of the open file that are well formed: whole, and with a
\* timestamp in the reader's format.
WellFormed(rd, lines) ==
    SelectSeq(lines,
        LAMBDA l : /\ l.kind = "data"
                   /\ Parses(l.t, IF rd = "actigraph_acc" THEN "" ELSE ":"))

\* C14: the per-file function of a reader ends by returning, and the table
\* it returns has one row for each well-formed row of the file, in order,
\* with that row's timestamp: malformed rows are left out and nothing is
\* raised.
C14_MalformedRowsSkipped ==
    parse_pc # "call" =>
        /\ parse_pc = "returned"
        /\ LET good == WellFormed(parse_fn, open_csv)
           IN  /\ Len(returned_df) = Len(good)
               /\ \A i \in DOMAIN good :
                     returned_df[i].Timestamp.s = good[i].t.s

---------------------------------------------------------------------------
(* The pivot of buildperson, chart_data.py 87-96.                          *)
(*                                                                         *)
(* A row of the long table csv_df is [device, Timestamp, x, y, z], the     *)
(* Timestamp a datetime.  A wide table is [index, columns, values]: the    *)
(* row labels, the device labels of each of the column groups x, y and z,  *)
(* and the cells that hold a value, as [Timestamp, device, x, y, z]; a     *)
(* cell that is not among them is empty (NaN).                             *)

\* The datetimes of S in ascending order.
RECURSIVE SortDts(_)
SortDts(S) ==
    IF S = {} THEN <<>>
    ELSE <<MinDt(S)>> \o SortDts(S \ {MinDt(S)})

\* split_datetimes (254-274): the Datestamp of a row.
Datestamp(row) == row.Timestamp.d

\* A variant of the sort that leaves the rows as they were concatenated.
SortLeftAsConcatenated(df) == df

\* csv_df.sort_values(by=["Datestamp", "Timestamp"], inplace=True) (line
\* 89): the rows in ascending order of Datestamp and, within a date, of
\* Timestamp; rows with the same key stay in the order they had (a sort
\* by two columns is a lexsort, which is stable).
RECURSIVE SortByDatestampTimestamp(_)
SortByDatestampTimestamp(df) ==
    IF df = <<>> THEN <<>>
    ELSE LET sorted == SortByDatestampTimestamp(SubSeq(df, 1, Len(df) - 1))
             r == df[Len(df)]
             KeyLeq(q) ==
                 \/ Datestamp(q) < Datestamp(r)
                 \/ /\ Datestamp(q) = Datestamp(r)
                    /\ DtLeq(q.Timestamp, r.Timestamp)
         IN  SelectSeq(sorted, KeyLeq) \o <<r>>
                 \o SelectSeq(sorted, LAMBDA q : ~KeyLeq(q))

\* csv_df.Datestamp.unique() (line 90): the distinct dates of the column
\* in the order of their first row.
DatesOf(df) == Unique([i \in DOMAIN df |-> Datestamp(df[i])])

\* csv_df.loc[csv_df['Datestamp'] == d]
RowsOfDate(df, date) == SelectSeq(df, LAMBDA r : Datestamp(r) = date)

\* Whether DataFrame.pivot raises ValueError: two rows with the same index
\* and column labels.
PivotRaises(df) ==
    \E i, j \in DOMAIN df :
        /\ i # j
        /\ df[i].Timestamp = df[j].Timestamp
        /\ df[i].device = df[j].device

\* A variant of the pivot that fills a cell without a reading with the
\* device's latest earlier reading of the table.
PivotForwardFill(df) ==
    LET index == SortDts({df[i].Timestamp : i \in DOMAIN df})
        columns == SortDevices({df[i].device : i \in DOMAIN df})
    IN  [index |-> index,
         columns |-> columns,
         values |->
            {[Timestamp |-> t, device |-> df[i].device,
              x |-> df[i].x, y |-> df[i].y, z |-> df[i].z] :
                 <<i, t>> \in
                    {p \in (DOMAIN df) \X Range(index) :
                        /\ DtLeq(df[p[1]].Timestamp, p[2])
                        /\ \A j \in DOMAIN df :
                              (df[j].device = df[p[1]].device
                                 /\ DtLeq(df[j].Timestamp, p[2]))
                              => DtLeq(df[j].Timestamp, df[p[1]].Timestamp)}}]

\* df.pivot(index="Timestamp", columns="device"), sortlevel, and del of the
\* Datestamp group (lines 92-95), when pivot does not raise.
Pivot(df) ==
    [index |-> SortDts({df[i].Timestamp : i \in DOMAIN df}),
     columns |-> SortDevices({df[i].device : i \in DOMAIN df}),
     values |-> {[Timestamp |-> df[i].Timestamp, device |-> df[i].device,
                  x |-> df[i].x, y |-> df[i].y, z |-> df[i].z] :
                    i \in DOMAIN df}]

\* The devices of the person-wrist being built.
PivotDevices == <<"Actigraph", "E4">>

\* The selected readings of one device: in ascending order of Timestamp
\* (line 64 sorts the device table before the selection).
DeviceSelections(device) ==
    UNION { { rows \in [1..n -> [device : {device},
                                 Timestamp : ReadingInstants,
                                 x : ReadingValues, y : {0}, z : {-1}]] :
                \A i \in 1..(n - 1) :
                    DtLeq(rows[i].Timestamp, rows[i + 1].Timestamp) } :
            n \in 0..MaxDeviceRows }

InitPivot ==
    /\ pvt_pc = "selected"
    /\ csv_df \in {a \o b : a \in DeviceSelections(PivotDevices[1]),
                            b \in DeviceSelections(PivotDevices[2])}
    /\ dates = <<>>
    /\ charts = <<>>
    /\ PeopleIdle
    /\ WindowIdle
    /\ ReaderIdle
    /\ ShiftIdle
    /\ CorrIdle
    /\ DriverIdle
    /\ ParseIdle
    /\ PlotIdle
    /\ PipelineIdle
    /\ ConvertIdle
    /\ LoopIdle
    /\ XcorrIdle
    /\ DropIdle
    /\ ChartIdle
    /\ FrameIdle
    /\ SettingsIdle

\* Line 87 with an empty csv_df: buildperson returns without a chart.
NothingToChart ==
    /\ pvt_pc = "selected"
    /\ Len(csv_df) = 0
    /\ pvt_pc' = "done"
    /\ UNCHANGED <<csv_df, dates, charts>>
    /\ UNCHANGED notPivotVars

\* Lines 88-90: split_datetimes gives each row its Datestamp, csv_df is
\* sorted in place, and the dates to loop over are read off the sorted
\* column.
SplitDatetimes ==
    /\ pvt_pc = "selected"
    /\ Len(csv_df) > 0
    /\ csv_df' = SortByDatestampTimestamp(csv_df)
    /\ dates' = DatesOf(csv_df')
    /\ pvt_pc' = "dates"
    /\ UNCHANGED charts
    /\ UNCHANGED notPivotVars

\* Lines 91-96 for one date: the pivot, and the call of linechart.
ChartDate ==
    /\ pvt_pc = "dates"
    /\ dates # <<>>
    /\ ~PivotRaises(RowsOfDate(csv_df, Head(dates)))
    /\ charts' = Append(charts, [d |-> Head(dates),
                                 df |-> Pivot(RowsOfDate(csv_df, Head(dates)))])
    /\ dates' = Tail(dates)
    /\ UNCHANGED <<pvt_pc, csv_df>>
    /\ UNCHANGED notPivotVars

\* Lines 91-93 for one date with two readings of one device at one
\* Timestamp: pivot raises ValueError.
ChartDateRaises ==
    /\ pvt_pc = "dates"
    /\ dates # <<>>
    /\ PivotRaises(RowsOfDate(csv_df, Head(dates)))
    /\ pvt_pc' = "ValueError"
    /\ UNCHANGED <<csv_df, dates, charts>>
    /\ UNCHANGED notPivotVars

\* The loop over the dates is exhausted.
ChartsDone ==
    /\ pvt_pc = "dates"
    /\ dates = <<>>
    /\ pvt_pc' = "done"
    /\ UNCHANGED <<csv_df, dates, charts>>
    /\ UNCHANGED notPivotVars

NextPivot ==
    \/ NothingToChart
    \/ SplitDatetimes
    \/ ChartDate
    \/ ChartDateRaises
    \/ ChartsDone

SpecPivot == InitPivot /\ [][NextPivot]_vars

\* C15: every wide table passed to linechart, for its date, has exactly one
\* row label per distinct timestamp among the selected readings of the
\* date and one column label per device that has one; a cell (timestamp,
\* device) holds a value exactly when the device has a reading at that
\* timestamp on that date, and the value is that reading's.
C15_WideTable ==
    \A c \in DOMAIN charts :
        LET sel == {i \in DOMAIN csv_df : csv_df[i].Timestamp.d = charts[c].d}
            wide == charts[c].df
        IN  /\ Range(wide.index) = {csv_df[i].Timestamp : i \in sel}
            /\ \A a, b \in DOMAIN wide.index : a # b => wide.index[a] # wide.index[b]
            /\ Range(wide.columns) = {csv_df[i].device : i \in sel}
            /\ \A a, b \in DOMAIN wide.columns :
                  a # b => wide.columns[a] # wide.columns[b]
            /\ \A t \in Range(wide.index), dev \in Range(wide.columns) :
                  LET cell == {v \in wide.values :
                                  v.Timestamp = t /\ v.device = dev}
                      read == {i \in sel : /\ csv_df[i].Timestamp = t
                                           /\ csv_df[i].device = dev}
                  IN  /\ read = {} => cell = {}
                      /\ \A i \in read :
                            cell = {[Timestamp |-> t, device |-> dev,
                                     x |-> csv_df[i].x, y |-> csv_df[i].y,
                                     z |-> csv_df[i].z]}

\* A wide table passed to linechart has two devices and a timestamp at
\* which only the first device has a reading, later than a reading of the
\* second device.
C15_Witness ==
    \E c \in DOMAIN charts :
        LET wide == charts[c].df
        IN  /\ Len(wide.columns) = 2
            /\ \E v, w \in wide.values :
                  /\ v.device = wide.columns[1]
                  /\ w.device = wide.columns[2]
                  /\ DtLess(w.Timestamp, v.Timestamp)
                  /\ \A u \in wide.values :
                        u.Timestamp = v.Timestamp => u.device = v.device

---------------------------------------------------------------------------
(* A run of plot_normalized_vector_lengths.main over define_plot_data.     *)

\* datetime(2017, 4, day, hour, minute); 2017-04-01 is day 17257 of the
\* epoch.
datetime(day, hour, minute) ==
    [d |-> 17256 + day, s |-> hour * 3600 + minute * 60, f |-> 0]

\* define_plot_data (22-67): the nine tuples.
define_plot_data ==
    << [label |-> "GENEActiv, ActiGraph and Wavelet on same dominant wrist",
        person |-> "Arno",
        devices |-> <<"GENEActiv_pink", "Actigraph", "Wavelet">>,
        start |-> datetime(6, 15, 45), stop |-> datetime(7, 14, 8)],
       [label |-> "GENEActiv and Wavelet on same dominant wrist",
        person |-> "Arno",
        devices |-> <<"GENEActiv_pink", "Wavelet">>,
        start |-> datetime(6, 15, 45), stop |-> datetime(7, 14, 8)],
       [label |-> "GENEActiv and E4 on same dominant wrist",
        person |-> "Jon",
        devices |-> <<"GENEActiv_black", "E4">>,
        start |-> datetime(6, 16, 20), stop |-> datetime(7, 16, 3)],
       [label |-> "ActiGraph and Wavelet on same dominant wrist",
        person |-> "Arno",
        devices |-> <<"Actigraph", "Wavelet">>,
        start |-> datetime(6, 15, 53), stop |-> datetime(7, 15, 0)],
       [label |-> "GENEActiv, ActiGraph and Wavelet on same dominant wrist, zoomed",
        person |-> "Arno",
        devices |-> <<"GENEActiv_pink", "Actigraph", "Wavelet">>,
        start |-> datetime(7, 7, 15), stop |-> datetime(7, 7, 45)],
       [label |-> "GENEActiv and Wavelet on same dominant wrist, zoomed",
        person |-> "Arno",
        devices |-> <<"GENEActiv_black", "Wavelet">>,
        start |-> datetime(6, 15, 53), stop |-> datetime(7, 15, 0)],
       [label |-> "GENEActiv and E4 on same dominant wrist, zoomed",
        person |-> "Jon",
        devices |-> <<"GENEActiv_black", "E4">>,
        start |-> datetime(6, 18, 15), stop |-> datetime(6, 18, 45)],
       [label |-> "ActiGraph and Wavelet on same dominant wrist, zoomed",
        person |-> "Arno",
        devices |-> <<"Actigraph", "Wavelet">>,
        start |-> datetime(6, 15, 53), stop |-> datetime(7, 15, 0)],
       [label |-> "ActiGraph and Wavelet on same dominant wrist, zoomed",
        person |-> "Arno",
        devices |-> <<"Actigraph", "Wavelet">>,
        start |-> datetime(6, 15, 53), stop |-> datetime(7, 15, 0)] >>

\* The devices the tuples name.
PlotDevices == UNION {Range(define_plot_data[k].devices) : k \in DOMAIN define_plot_data}

\* A reading of a normalized CSV, its Timestamp converted (151-157).
Reading(day, hour, minute, v) ==
    [Timestamp |-> datetime(day, hour, minute), value |-> v]

\* The rows of the normalized CSV of a device, sorted (149-150): no row;
\* readings in the morning of 2017-04-07 only, inside the windows of the
\* tuples but for the zoom of the evening of 2017-04-06; readings in the
\* evening and in the morning; one reading in the evening and an equal one
\* in the morning; two readings with the same Timestamp; and readings
\* without a value.
FileRows ==
    { <<>>,
      <<Reading(7, 7, 20, Float(2, 1)), Reading(7, 7, 30, Float(3, 1))>>,
      <<Reading(6, 18, 20, Float(2, 1)), Reading(6, 18, 30, Float(3, 1)),
        Reading(7, 7, 20, Float(2, 1)), Reading(7, 7, 30, Float(5, 1))>>,
      <<Reading(6, 18, 20, Float(2, 1)), Reading(7, 7, 20, Float(2, 1))>>,
      <<Reading(7, 7, 20, Float(2, 1)), Reading(7, 7, 20, Float(3, 1))>>,
      <<Reading(7, 7, 20, nan), Reading(7, 7, 30, nan)>> }

\* The normalized CSV of a device: absent, or a file with its rows.
PlotFiles ==
    {[exists |-> FALSE, rows |-> <<>>]}
    \cup {[exists |-> TRUE, rows |-> r] : r \in FileRows}

\* build_plot 142-160: the selections of a tuple, one per device file that
\* exists, in the order of plot_devices.
Selections(t, files) ==
    LET found == SelectSeq(t.devices, LAMBDA dev : files[dev].exists)
    IN  [k \in DOMAIN found |->
            [device |-> found[k],
             rows |-> SelectSeq(files[found[k]].rows,
                         LAMBDA r : /\ DtLeq(t.start, r.Timestamp)
                                    /\ DtLeq(r.Timestamp, t.stop))]]

\* The selections of the tuple main is at.
PlotSelections == Selections(define_plot_data[ti], device_files)

\* The suffix " baseline adjusted" of the label of the second chart (192).
Suffix(stage) == IF stage = "adjusted chart" THEN "baseline adjusted" ELSE ""

\* The series of the chart linechart is drawing.
PlotEsses == Esses(PlotSelections, plot_pc = "adjusted chart")

InitPlot ==
    /\ plot_pc = "main"
    /\ ti = 1
    /\ device_files \in [PlotDevices -> PlotFiles]
    /\ written = <<>>
    /\ builds = <<>>
    /\ PeopleIdle
    /\ WindowIdle
    /\ ReaderIdle
    /\ ShiftIdle
    /\ CorrIdle
    /\ DriverIdle
    /\ ParseIdle
    /\ PivotIdle
    /\ PipelineIdle
    /\ ConvertIdle
    /\ LoopIdle
    /\ XcorrIdle
    /\ DropIdle
    /\ ChartIdle
    /\ FrameIdle
    /\ SettingsIdle

\* build_plot 142-183 with no device file: csv_df stays empty, build_plot
\* returns (line 183) and main goes on.
BuildPlotFindsNothing ==
    /\ plot_pc = "main"
    /\ ti <= Len(define_plot_data)
    /\ PlotSelections = <<>>
    /\ builds' = Append(builds, [selected |-> FALSE, charts |-> 0, csv |-> 0,
                                 outcome |-> "returns"])
    /\ ti' = ti + 1
    /\ UNCHANGED <<plot_pc, device_files, written>>
    /\ UNCHANGED notPlotVars

\* build_plot 142-170 reaching a device file that has no reading in the
\* window: baseshift_and_renormalize raises ValueError (line 100) before
\* the files of the later devices are read; main prints it and goes on.
\* Readings were selected if an earlier device of the tuple had a file.
BuildPlotShiftFails ==
    /\ plot_pc = "main"
    /\ ti <= Len(define_plot_data)
    /\ FirstEmpty(PlotSelections) # 0
    /\ builds' = Append(builds,
          [selected |-> FirstEmpty(PlotSelections) > 1,
           charts |-> 0, csv |-> 0, outcome |-> "ValueError"])
    /\ ti' = ti + 1
    /\ UNCHANGED <<plot_pc, device_files, written>>
    /\ UNCHANGED notPlotVars

\* build_plot 142-186 with readings of every device file, two of one
\* device at the same Timestamp: the pivot of line 186 raises ValueError
\* before any chart; main prints it and goes on.
BuildPlotPivotFails ==
    /\ plot_pc = "main"
    /\ ti <= Len(define_plot_data)
    /\ PlotSelections # <<>>
    /\ FirstEmpty(PlotSelections) = 0
    /\ DuplicateEntries(PlotSelections)
    /\ builds' = Append(builds, [selected |-> TRUE, charts |-> 0, csv |-> 0,
                                 outcome |-> "ValueError"])
    /\ ti' = ti + 1
    /\ UNCHANGED <<plot_pc, device_files, written>>
    /\ UNCHANGED notPlotVars

\* build_plot 142-190 with readings of every device file and both pivots
\* made: on to the first chart.
BuildPlotSelects ==
    /\ plot_pc = "main"
    /\ ti <= Len(define_plot_data)
    /\ PlotSelections # <<>>
    /\ FirstEmpty(PlotSelections) = 0
    /\ ~DuplicateEntries(PlotSelections)
    /\ plot_pc' = "chart"
    /\ UNCHANGED <<ti, device_files, written, builds>>
    /\ UNCHANGED notPlotVars

\* linechart (191 or 192-193) of two or more series that all have values:
\* the images and the correlation files are written.
LinechartSaves ==
    /\ plot_pc \in {"chart", "adjusted chart"}
    /\ LinechartOutcome(PlotEsses) = "returns"
    /\ written' = written
                    \o ImageFiles(define_plot_data[ti].label, Suffix(plot_pc))
                    \o CorrelationFiles(PlotEsses)
    /\ plot_pc' = IF plot_pc = "chart" THEN "adjusted chart" ELSE "write_csv"
    /\ UNCHANGED <<ti, device_files, builds>>
    /\ UNCHANGED notPlotVars

\* linechart (191) of a single series: the images are written, then
\* esses[1] raises IndexError; main prints it and goes on.
LinechartFails ==
    /\ plot_pc \in {"chart", "adjusted chart"}
    /\ LinechartOutcome(PlotEsses) = "IndexError"
    /\ written' = written \o ImageFiles(define_plot_data[ti].label, Suffix(plot_pc))
    /\ builds' = Append(builds,
          [selected |-> TRUE,
           charts |-> IF plot_pc = "chart" THEN 0 ELSE 1, csv |-> 0,
           outcome |-> "IndexError"])
    /\ ti' = ti + 1
    /\ plot_pc' = "main"
    /\ UNCHANGED device_files
    /\ UNCHANGED notPlotVars

\* linechart (191 or 192-193) with a series that has no value left after
\* dropna (273): the images are written, and so are the correlation files
\* of the calls before the one in which np.correlate raises ValueError
\* (211); main prints it and goes on.
LinechartCorrelateFails ==
    /\ plot_pc \in {"chart", "adjusted chart"}
    /\ LinechartOutcome(PlotEsses) = "ValueError"
    /\ written' = written
                    \o ImageFiles(define_plot_data[ti].label, Suffix(plot_pc))
                    \o CorrelationFiles(PlotEsses)
    /\ builds' = Append(builds,
          [selected |-> TRUE,
           charts |-> IF plot_pc = "chart" THEN 0 ELSE 1, csv |-> 0,
           outcome |-> "ValueError"])
    /\ ti' = ti + 1
    /\ plot_pc' = "main"
    /\ UNCHANGED device_files
    /\ UNCHANGED notPlotVars

\* build_plot 194-195: write_csv is called with the keyword normal, which
\* chart_data.write_csv (276) does not take: TypeError, before anything is
\* written; main prints it and goes on.
WriteCsvFails ==
    /\ plot_pc = "write_csv"
    /\ builds' = Append(builds, [selected |-> TRUE, charts |-> 2, csv |-> 0,
                                 outcome |-> "TypeError"])
    /\ ti' = ti + 1
    /\ plot_pc' = "main"
    /\ UNCHANGED <<device_files, written>>
    /\ UNCHANGED notPlotVars

\* The loop of main over the tuples is exhausted.
PlotMainDone ==
    /\ plot_pc = "main"
    /\ ti > Len(define_plot_data)
    /\ plot_pc' = "done"
    /\ UNCHANGED <<ti, device_files, written, builds>>
    /\ UNCHANGED notPlotVars

NextPlot ==
    \/ BuildPlotFindsNothing
    \/ BuildPlotShiftFails
    \/ BuildPlotPivotFails
    \/ BuildPlotSelects
    \/ LinechartSaves
    \/ LinechartFails
    \/ LinechartCorrelateFails
    \/ WriteCsvFails
    \/ PlotMainDone

SpecPlot == InitPlot /\ [][NextPlot]_vars

\* C16: within one run of main, no output file (SVG, PNG, correlation file)
\* is written twice.
C16_WrittenOnce ==
    \A i, j \in DOMAIN written : i # j => written[i] # written[j]

\* C17: every build_plot that selected at least one reading has rendered
\* both charts, persisted both wide tables through write_csv and returned
\* normally.
C17_PersistsAndReturns ==
    \A b \in DOMAIN builds :
        builds[b].selected =>
            /\ builds[b].charts = 2
            /\ builds[b].csv = 2
            /\ builds[b].outcome = "returns"

-----------------------------------------------------------------------------
\* mindboggle/pipeline.py: the script at its top level. Its statements run
\* in source order; the ones listed are those that the user settings of
\* lines 83-120 enable and that look up the environment, create a
\* directory, construct a workflow or a node, read a protocol file or run
\* a workflow. Assignments of node inputs and connect calls change none of
\* the variables below and are left out.

\* The largest length of sys.argv.
MaxArgs == 4

\* The variables os.environ is asked for (lines 165-170).
EnvironNames == {"SUBJECTS_DIR", "MINDBOGGLE_DATA", "MINDBOGGLE_TOOLS",
                 "MINDBOGGLE"}

\* Lines 70-80: the command line arguments.
CommandLine ==
    <<[line |-> 72, op |-> "args", arg |-> ""]>>

\* Lines 165-170: the paths, each from os.environ[...].
Paths ==
    <<[line |-> 165, op |-> "environ", arg |-> "SUBJECTS_DIR"],
      [line |-> 166, op |-> "environ", arg |-> "MINDBOGGLE_DATA"],
      [line |-> 168, op |-> "environ", arg |-> "MINDBOGGLE_TOOLS"],
      [line |-> 170, op |-> "environ", arg |-> "MINDBOGGLE"]>>

\* Lines 180-182: mbFlow and its base directory temp_path.
InitializeMainWorkflow ==
    <<[line |-> 180, op |-> "Workflow", arg |-> "Mindboggle"],
      [line |-> 182, op |-> "makedirs", arg |-> "workspace"]>>

\* Lines 191-262: inputs and outputs, and the protocol's label file.
InputsAndOutputs ==
    <<[line |-> 191, op |-> "Node", arg |-> "Inputs"],
      [line |-> 197, op |-> "Node", arg |-> "Surfaces"],
      [line |-> 212, op |-> "Node", arg |-> "Annots"],
      [line |-> 222, op |-> "Node", arg |-> "Volumes"],
      [line |-> 231, op |-> "Node", arg |-> "Results"],
      [line |-> 234, op |-> "makedirs", arg |-> "output"],
      [line |-> 239, op |-> "Node", arg |-> "Surface_to_VTK"],
      [line |-> 248, op |-> "Node", arg |-> "Atlases"],
      [line |-> 262, op |-> "read_columns", arg |-> "labels.surface"]>>

\* Lines 270-975: the label, shape, feature and table workflows, with
\* init_labels = 'manual', do_thickness, do_convexity, do_vertex_tables
\* and neither do_sulci nor do_fundi.
SurfaceWorkflows ==
    <<[line |-> 272, op |-> "Workflow", arg |-> "Labels"],
      [line |-> 427, op |-> "Node", arg |-> "Atlas_labels"],
      [line |-> 452, op |-> "Workflow", arg |-> "Shapes"],
      [line |-> 457, op |-> "Node", arg |-> "Area"],
      [line |-> 467, op |-> "Node", arg |-> "Depth"],
      [line |-> 477, op |-> "Node", arg |-> "Curvature"],
      [line |-> 492, op |-> "Node", arg |-> "Thickness_to_VTK"],
      [line |-> 505, op |-> "Node", arg |-> "Convexity_to_VTK"],
      [line |-> 553, op |-> "Workflow", arg |-> "Features"],
      [line |-> 558, op |-> "Node", arg |-> "Folds"],
      [line |-> 739, op |-> "Workflow", arg |-> "Tables"],
      [line |-> 750, op |-> "Node", arg |-> "Label_table"],
      [line |-> 904, op |-> "Node", arg |-> "Vertex_table"]>>

\* Lines 1017-1086: annotflow, a part of mbFlow.
FillVolumePrep ==
    <<[line |-> 1019, op |-> "Workflow", arg |-> "Fill_volume_prep"],
      [line |-> 1027, op |-> "Node", arg |-> "Write_label_files"],
      [line |-> 1066, op |-> "Node", arg |-> "Write_annot_file"]>>

\* Lines 1096-1196: mbFlow2, with do_fill and do_measure_volume.
LabelVolumes ==
    <<[line |-> 1098, op |-> "Workflow", arg |-> "Label_volumes"],
      [line |-> 1107, op |-> "Node", arg |-> "Inputs2"],
      [line |-> 1109, op |-> "Node", arg |-> "Results2"],
      [line |-> 1117, op |-> "Node", arg |-> "Fill_volume"],
      [line |-> 1133, op |-> "Node", arg |-> "Correct_labels"],
      [line |-> 1143, op |-> "read_columns", arg |-> "labels.volume.annot_errors"],
      [line |-> 1156, op |-> "Node", arg |-> "Measure_volumes"],
      [line |-> 1165, op |-> "read_columns", arg |-> "labels.volume"],
      [line |-> 1176, op |-> "Node", arg |-> "Volume_label_table"]>>

\* Line 1253: if __name__ == '__main__'.
IfMain ==
    <<[line |-> 1253, op |-> "main", arg |-> ""]>>

\* Lines 1270-1273, with run_flow1 and run_flow2 and without
\* generate_graphs: mbFlow.run() and then mbFlow2.run().
RunWorkflows ==
    <<[line |-> 1271, op |-> "run", arg |-> "Mindboggle"],
      [line |-> 1273, op |-> "run", arg |-> "Label_volumes"]>>

\* The script with the directory of line 182 made before the paths are
\* looked up.
StatementsDirsFirst ==
    CommandLine \o <<InitializeMainWorkflow[2]>> \o Paths
        \o <<InitializeMainWorkflow[1]>> \o InputsAndOutputs
        \o SurfaceWorkflows \o FillVolumePrep \o LabelVolumes \o IfMain
        \o RunWorkflows

\* The script with mbFlow2.run() ahead of mbFlow.run().
StatementsVolumesFirst ==
    CommandLine \o Paths \o InitializeMainWorkflow \o InputsAndOutputs
        \o SurfaceWorkflows \o FillVolumePrep \o LabelVolumes \o IfMain
        \o <<RunWorkflows[2], RunWorkflows[1]>>

\* pipeline.py, statement by statement.
Statements ==
    CommandLine \o Paths \o InitializeMainWorkflow \o InputsAndOutputs
        \o SurfaceWorkflows \o FillVolumePrep \o LabelVolumes \o IfMain
        \o RunWorkflows

\* The statement about to run, or one past the end.
AtEnd == ip > Len(Statements)
Statement == Statements[ip]
At(o) == ending = "" /\ running = "" /\ ~AtEnd /\ Statement.op = o

\* os.makedirs(path): the directory and the missing ones above it;
\* temp_path is os.path.join(output_path, 'workspace') (line 167).
Makedirs(path) == IF path = "workspace" THEN {"output", "workspace"}
                  ELSE {path}

\* The connections of the nodes that write and read the annot file, as
\* the connect calls of lines 257, 1037, 1057-1059, 1079-1085 (mbFlow and
\* annotflow within it) and 1125-1140 (mbFlow2) make them.
Connections ==
    {[flow |-> "Mindboggle", from |-> "Inputs", to |-> "Atlases"],
     [flow |-> "Mindboggle", from |-> "Inputs", to |-> "Write_label_files"],
     [flow |-> "Mindboggle", from |-> "Atlases", to |-> "Write_label_files"],
     [flow |-> "Mindboggle", from |-> "Inputs", to |-> "Write_annot_file"],
     [flow |-> "Mindboggle", from |-> "Write_label_files",
      to |-> "Write_annot_file"],
     [flow |-> "Label_volumes", from |-> "Inputs2", to |-> "Fill_volume"],
     [flow |-> "Label_volumes", from |-> "Inputs2", to |-> "Volumes"],
     [flow |-> "Label_volumes", from |-> "Volumes", to |-> "Fill_volume"],
     [flow |-> "Label_volumes", from |-> "Fill_volume",
      to |-> "Correct_labels"]}

\* The nodes of a workflow, of those connected above.
FlowNodes(flow) ==
    {c.from : c \in {k \in Connections : k.flow = flow}}
        \cup {c.to : c \in {k \in Connections : k.flow = flow}}

\* The executions of a workflow's nodes so far.
Executions(flow) ==
    {executed[i] : i \in {k \in DOMAIN executed : executed[k].flow = flow}}

\* A node the engine may execute next: not yet executed, and every node
\* it takes an input from has been executed without a crash.
Ready(flow, n) ==
    /\ n \in FlowNodes(flow)
    /\ \A e \in Executions(flow) : e.node # n
    /\ \A c \in Connections :
           (c.flow = flow /\ c.to = n) =>
               [flow |-> flow, node |-> c.from, ok |-> TRUE]
                   \in Executions(flow)

Crashed(flow) == \E e \in Executions(flow) : ~e.ok

InitPipeline ==
    /\ argv \in 1..MaxArgs
    /\ environ \in SUBSET EnvironNames
    /\ run_name \in {"__main__", "pipeline"}
    /\ isdir \in {{}, {"output"}, {"output", "workspace"}}
    /\ ip = 1
    /\ ending = ""
    /\ made = <<>>
    /\ nodes = <<>>
    /\ workflows = <<>>
    /\ running = ""
    /\ executed = <<>>
    /\ PeopleIdle
    /\ WindowIdle
    /\ ReaderIdle
    /\ ShiftIdle
    /\ CorrIdle
    /\ DriverIdle
    /\ ParseIdle
    /\ PivotIdle
    /\ PlotIdle
    /\ ConvertIdle
    /\ LoopIdle
    /\ XcorrIdle
    /\ DropIdle
    /\ ChartIdle
    /\ FrameIdle
    /\ SettingsIdle

\* Lines 72-77: fewer than two arguments, the usage text and sys.exit().
ArgsMissing ==
    /\ At("args")
    /\ argv < 3
    /\ ending' = "SystemExit"
    /\ UNCHANGED <<argv, environ, run_name, isdir, ip, made, nodes,
                   workflows, running, executed>>
    /\ UNCHANGED notPipelineVars

\* Lines 78-80: output_path and subjects from the arguments.
ArgsGiven ==
    /\ At("args")
    /\ argv >= 3
    /\ ip' = ip + 1
    /\ UNCHANGED <<argv, environ, run_name, isdir, ending, made, nodes,
                   workflows, running, executed>>
    /\ UNCHANGED notPipelineVars

\* Lines 165-170: os.environ[name] of a variable that is set.
EnvironSet ==
    /\ At("environ")
    /\ Statement.arg \in environ
    /\ ip' = ip + 1
    /\ UNCHANGED <<argv, environ, run_name, isdir, ending, made, nodes,
                   workflows, running, executed>>
    /\ UNCHANGED notPipelineVars

\* Lines 165-170: os.environ[name] of a variable that is not set raises
\* KeyError, which nothing catches.
EnvironRaises ==
    /\ At("environ")
    /\ Statement.arg \notin environ
    /\ ending' = "KeyError"
    /\ UNCHANGED <<argv, environ, run_name, isdir, ip, made, nodes,
                   workflows, running, executed>>
    /\ UNCHANGED notPipelineVars

\* Workflow(name=...).
ConstructWorkflow ==
    /\ At("Workflow")
    /\ workflows' = Append(workflows, Statement.arg)
    /\ ip' = ip + 1
    /\ UNCHANGED <<argv, environ, run_name, isdir, ending, made, nodes,
                   running, executed>>
    /\ UNCHANGED notPipelineVars

\* Lines 182 and 234: if not os.path.isdir(path): os.makedirs(path).
MakeDirs ==
    /\ At("makedirs")
    /\ Statement.arg \notin isdir
    /\ made' = Append(made, Statement.arg)
    /\ isdir' = isdir \cup Makedirs(Statement.arg)
    /\ ip' = ip + 1
    /\ UNCHANGED <<argv, environ, run_name, ending, nodes, workflows,
                   running, executed>>
    /\ UNCHANGED notPipelineVars

\* Lines 182 and 234: the directory is there.
DirExists ==
    /\ At("makedirs")
    /\ Statement.arg \in isdir
    /\ ip' = ip + 1
    /\ UNCHANGED <<argv, environ, run_name, isdir, ending, made, nodes,
                   workflows, running, executed>>
    /\ UNCHANGED notPipelineVars

\* Node(name=...), MapNode(name=...) or clone(name).
ConstructNode ==
    /\ At("Node")
    /\ nodes' = Append(nodes, Statement.arg)
    /\ ip' = ip + 1
    /\ UNCHANGED <<argv, environ, run_name, isdir, ending, made,
                   workflows, running, executed>>
    /\ UNCHANGED notPipelineVars

\* Lines 262, 1143, 1165: read_columns of a file of the protocol. The
\* function is of mindboggle.utils.io_file; it opens the file.
ReadColumnsReturns ==
    /\ At("read_columns")
    /\ ip' = ip + 1
    /\ UNCHANGED <<argv, environ, run_name, isdir, ending, made, nodes,
                   workflows, running, executed>>
    /\ UNCHANGED notPipelineVars

\* Lines 262, 1143, 1165: the file cannot be opened.
ReadColumnsRaises ==
    /\ At("read_columns")
    /\ ending' = "IOError"
    /\ UNCHANGED <<argv, environ, run_name, isdir, ip, made, nodes,
                   workflows, running, executed>>
    /\ UNCHANGED notPipelineVars

\* Line 1253: the module was imported, the workflows are not run.
MainImported ==
    /\ At("main")
    /\ run_name # "__main__"
    /\ ending' = "returns"
    /\ UNCHANGED <<argv, environ, run_name, isdir, ip, made, nodes,
                   workflows, running, executed>>
    /\ UNCHANGED notPipelineVars

\* Line 1253: run as a script.
MainScript ==
    /\ At("main")
    /\ run_name = "__main__"
    /\ ip' = ip + 1
    /\ UNCHANGED <<argv, environ, run_name, isdir, ending, made, nodes,
                   workflows, running, executed>>
    /\ UNCHANGED notPipelineVars

\* Lines 1271 and 1273: the call of run() enters the engine.
RunStarts ==
    /\ At("run")
    /\ running' = Statement.arg
    /\ UNCHANGED <<argv, environ, run_name, isdir, ip, ending, made,
                   nodes, workflows, executed>>
    /\ UNCHANGED notPipelineVars

\* Within run(): the engine executes a node that is ready; the node's
\* function returns or crashes.
NodeExecutes ==
    /\ ending = ""
    /\ running # ""
    /\ \E n \in FlowNodes(running), ok \in BOOLEAN :
           /\ Ready(running, n)
           /\ executed' = Append(executed,
                  [flow |-> running, node |-> n, ok |-> ok])
    /\ UNCHANGED <<argv, environ, run_name, isdir, ip, ending, made,
                   nodes, workflows, running>>
    /\ UNCHANGED notPipelineVars

\* Lines 1271 and 1273: run() returns when no node is left to execute.
RunReturns ==
    /\ ending = ""
    /\ running # ""
    /\ \A n \in FlowNodes(running) : ~Ready(running, n)
    /\ running' = ""
    /\ ip' = ip + 1
    /\ UNCHANGED <<argv, environ, run_name, isdir, ending, made, nodes,
                   workflows, executed>>
    /\ UNCHANGED notPipelineVars

\* Lines 1271 and 1273: run() raises after the crash of a node, at once
\* or after the nodes that do not depend on it, as the engine is
\* configured.
RunRaises ==
    /\ ending = ""
    /\ running # ""
    /\ Crashed(running)
    /\ running' = ""
    /\ ending' = "RuntimeError"
    /\ UNCHANGED <<argv, environ, run_name, isdir, ip, made, nodes,
                   workflows, executed>>
    /\ UNCHANGED notPipelineVars

\* After line 1273 the script ends.
ScriptEnds ==
    /\ ending = ""
    /\ running = ""
    /\ AtEnd
    /\ ending' = "returns"
    /\ UNCHANGED <<argv, environ, run_name, isdir, ip, made, nodes,
                   workflows, running, executed>>
    /\ UNCHANGED notPipelineVars

NextPipeline ==
    \/ ArgsMissing
    \/ ArgsGiven
    \/ EnvironSet
    \/ EnvironRaises
    \/ ConstructWorkflow
    \/ MakeDirs
    \/ DirExists
    \/ ConstructNode
    \/ ReadColumnsReturns
    \/ ReadColumnsRaises
    \/ MainImported
    \/ MainScript
    \/ RunStarts
    \/ NodeExecutes
    \/ RunReturns
    \/ RunRaises
    \/ ScriptEnds

SpecPipeline == InitPipeline /\ [][NextPipeline]_vars

\* The variables the claim names as required.
Required == {"SUBJECTS_DIR", "MINDBOGGLE_DATA", "MINDBOGGLE_TOOLS"}

\* C18: when SUBJECTS_DIR, MINDBOGGLE_DATA or MINDBOGGLE_TOOLS is not set,
\* the script never gets past the lookups of lines 165-168: it makes no
\* directory and constructs no workflow and no node, and once it has
\* stopped it has stopped with the KeyError of the lookup (or, called with
\* fewer than two arguments, with the usage text of line 77).
C18_FatalBeforeSetup ==
    (Required \ environ # {}) =>
        /\ made = <<>>
        /\ nodes = <<>>
        /\ workflows = <<>>
        /\ ~AtEnd /\ Statement.line <= 168
        /\ ending \in {"", "KeyError", "SystemExit"}
        /\ (ending = "SystemExit") = (ending # "" /\ argv < 3)

\* C18: the script, given its arguments and a missing output directory,
\* has stopped with KeyError at a variable that is not set.
C18_Witness ==
    /\ Required \ environ # {}
    /\ argv >= 3
    /\ isdir = {}
    /\ ending = "KeyError"
    /\ Statement.arg \in Required

\* The positions in executed of the executions of a workflow.
ExecutedAt(flow) == {i \in DOMAIN executed : executed[i].flow = flow}

\* C19: run as a script, mbFlow2 starts only after mbFlow.run() has
\* returned; every execution of a node of mbFlow comes before every
\* execution of a node of mbFlow2, Write_annot_file before Fill_volume.
C19_SurfaceBeforeVolumes ==
    /\ \A i \in ExecutedAt("Mindboggle"), j \in ExecutedAt("Label_volumes") :
           i < j
    /\ (running = "Label_volumes" \/ ExecutedAt("Label_volumes") # {}) =>
           /\ run_name = "__main__"
           /\ AtEnd \/ Statement.line = 1273
           /\ \A n \in FlowNodes("Mindboggle") : ~Ready("Mindboggle", n)
    /\ running = "Mindboggle" => ExecutedAt("Label_volumes") = {}

\* C19: both workflows have run, and Fill_volume was executed after
\* Write_annot_file.
C19_Witness ==
    /\ ending = "returns"
    /\ \E i, j \in DOMAIN executed :
           /\ i < j
           /\ executed[i] = [flow |-> "Mindboggle",
                             node |-> "Write_annot_file", ok |-> TRUE]
           /\ executed[j] = [flow |-> "Label_volumes",
                             node |-> "Fill_volume", ok |-> TRUE]

-----------------------------------------------------------------------------
\* chart_data.buildperson, lines 63-75, for one device whose file exists:
\* read and sort, try to convert the Timestamp column, select the window,
\* turn the selected Timestamps into datetimes.

\* A device file whose Timestamps need not share one format.
MixedDeviceTables ==
    UNION { [1..n -> [Timestamp : {strftime(t, sep) :
                                      t \in ReadingInstants, sep \in {".", ":"}},
                      value : {1}]] :
            n \in 0..MaxReadings }

InitConvert ==
    /\ vpc = "read"
    /\ device_file \in MixedDeviceTables
    /\ device_df = <<>>
    /\ \E a, b \in WindowInstants :
          vstart = strftime(a, ".") /\ vstop = strftime(b, ".")
    /\ caught = FALSE
    /\ selection = <<>>
    /\ PeopleIdle
    /\ WindowIdle
    /\ ReaderIdle
    /\ ShiftIdle
    /\ CorrIdle
    /\ DriverIdle
    /\ ParseIdle
    /\ PivotIdle
    /\ PlotIdle
    /\ PipelineIdle
    /\ LoopIdle
    /\ XcorrIdle
    /\ DropIdle
    /\ ChartIdle
    /\ FrameIdle
    /\ SettingsIdle

\* Lines 63-64: pd.read_csv and sort_values(by='Timestamp').
ReadCsv ==
    /\ vpc = "read"
    /\ device_df' = SortValues(device_file)
    /\ vpc' = "try"
    /\ UNCHANGED <<device_file, vstart, vstop, caught, selection>>
    /\ UNCHANGED notConvertVars

\* Lines 65-67: every cell parses, the column is assigned.
ConversionSucceeds ==
    /\ vpc = "try"
    /\ \A i \in DOMAIN device_df : Parses(str(device_df[i].Timestamp), ":")
    /\ device_df' = ConvertBuildperson(device_df)
    /\ vpc' = "select"
    /\ UNCHANGED <<device_file, vstart, vstop, caught, selection>>
    /\ UNCHANGED notConvertVars

\* Lines 65-69: datetimeint raises on a cell within map, before the
\* assignment; except: pass.
ConversionCaught ==
    /\ vpc = "try"
    /\ \E i \in DOMAIN device_df : ~Parses(str(device_df[i].Timestamp), ":")
    /\ device_df' = ConvertBuildperson(device_df)
    /\ caught' = TRUE
    /\ vpc' = "select"
    /\ UNCHANGED <<device_file, vstart, vstop, selection>>
    /\ UNCHANGED notConvertVars

\* Lines 70-71.
SelectRows ==
    /\ vpc = "select"
    /\ selection' = Select(device_df, vstart, vstop)
    /\ vpc' = "datetimedt"
    /\ UNCHANGED <<device_file, device_df, vstart, vstop, caught>>
    /\ UNCHANGED notConvertVars

\* Lines 74-75: every selected Timestamp is "%Y-%m-%d %H:%M:%S.%f".
ToDatetimeReturns ==
    /\ vpc = "datetimedt"
    /\ \A i \in DOMAIN selection : Parses(selection[i].Timestamp, ".")
    /\ selection' = [i \in DOMAIN selection |->
                       [selection[i] EXCEPT !.Timestamp = datetimedt(@)]]
    /\ vpc' = "ranges"
    /\ UNCHANGED <<device_file, device_df, vstart, vstop, caught>>
    /\ UNCHANGED notConvertVars

\* Lines 74-75: datetimedt raises ValueError on a selected Timestamp of
\* another format; nothing in buildperson catches it.
ToDatetimeRaises ==
    /\ vpc = "datetimedt"
    /\ \E i \in DOMAIN selection : ~Parses(selection[i].Timestamp, ".")
    /\ vpc' = "ValueError"
    /\ UNCHANGED <<device_file, device_df, vstart, vstop, caught, selection>>
    /\ UNCHANGED notConvertVars

NextConvert ==
    \/ ReadCsv
    \/ ConversionSucceeds
    \/ ConversionCaught
    \/ SelectRows
    \/ ToDatetimeReturns
    \/ ToDatetimeRaises

SpecConvert == InitConvert /\ [][NextConvert]_vars

\* Whether some Timestamp of the file fails datetimeint's default format.
SomeConversionFails ==
    \E i \in DOMAIN device_file : device_file[i].Timestamp.sep # ":"

\* The rows of df whose Timestamp text lies in the window, as texts compare.
RowsInWindowAsText(df) ==
    SelectSeq(df, LAMBDA r : /\ StrLeq(vstart, r.Timestamp)
                             /\ StrLeq(r.Timestamp, vstop))

\* C20: when the conversion of some Timestamp of the file fails, the
\* failure is caught, the table holds every row exactly as read (in sorted
\* order, no Timestamp converted), and the window selection that follows is
\* made on those unconverted values.
C20_ColumnLeftAsRead ==
    (SomeConversionFails /\ vpc \notin {"read", "try"}) =>
        /\ caught
        /\ Len(device_df) = Len(device_file)
        /\ \A r \in {device_file[i] : i \in DOMAIN device_file} :
               Cardinality({i \in DOMAIN device_df : device_df[i] = r})
                   = Cardinality({i \in DOMAIN device_file : device_file[i] = r})
        /\ vpc \in {"datetimedt", "ValueError"} =>
               selection = RowsInWindowAsText(device_df)

\* C20: a file whose first sorted Timestamp converts and whose later one
\* does not; the except was entered and a row of each kind was selected.
C20_Witness ==
    /\ vpc = "datetimedt"
    /\ caught
    /\ \E i, j \in DOMAIN selection :
           /\ i < j
           /\ selection[i].Timestamp.sep = ":"
           /\ selection[j].Timestamp.sep = "."

-----------------------------------------------------------------------------
\* The loop over the devices: chart_data.buildperson, lines 58-86, and
\* plot_normalized_vector_lengths.build_plot, lines 142-182. A device's
\* file is [exists, rows]: whether it exists and the number of rows the
\* window selects from it, possibly none.

\* Largest number of devices in the list of one person-wrist or plot.
MaxListed == 3

\* A variant of DeviceOutcome in which the file is read without asking
\* whether it exists.
DeviceOutcomeUnguarded(caller, file) ==
    IF ~file.exists THEN "IOError"
    ELSE IF file.rows = 0 THEN "ValueError"
    ELSE "accumulate"

\* What the body of the loop does with one device. Without the file the
\* body is skipped (os.path.exists, chart_data.py 62, plot 147). With a
\* file whose selection is empty, buildperson raises ValueError at
\* min(person_device_df.x) (line 77) and build_plot at max(...) within
\* baseshift_and_renormalize (line 100).
DeviceOutcome(caller, file) ==
    IF ~file.exists THEN "skip"
    ELSE IF file.rows = 0 THEN "ValueError"
    ELSE "accumulate"

\* The files a device may have.
DeviceFiles ==
    {[exists |-> FALSE, rows |-> 0]}
        \cup {[exists |-> TRUE, rows |-> n] : n \in 0..MaxDeviceRows}

\* The rows of the device at index i of the list.
DeviceRows(i, n) == [k \in 1..n |-> <<i, k>>]

\* The list of buildperson is pd.unique of the device column of the rows of
\* pw (53-55), and get_startstop (52) has returned for pw: the list names at
\* least one device. plot_devices is any list.
InitLoop ==
    /\ lcaller \in {"buildperson", "build_plot"}
    /\ listed \in UNION {[1..n -> DeviceFiles] :
                          n \in (IF lcaller = "buildperson" THEN 1 ELSE 0)..MaxListed}
    /\ li = 1
    /\ lpc = "loop"
    /\ accumulated = <<>>
    /\ PeopleIdle
    /\ WindowIdle
    /\ ReaderIdle
    /\ ShiftIdle
    /\ CorrIdle
    /\ DriverIdle
    /\ ParseIdle
    /\ PivotIdle
    /\ PlotIdle
    /\ PipelineIdle
    /\ ConvertIdle
    /\ XcorrIdle
    /\ DropIdle
    /\ ChartIdle
    /\ FrameIdle
    /\ SettingsIdle

\* The file does not exist: the body of the if is not entered.
DeviceSkipped ==
    /\ lpc = "loop"
    /\ li <= Len(listed)
    /\ DeviceOutcome(lcaller, listed[li]) = "skip"
    /\ li' = li + 1
    /\ UNCHANGED <<lcaller, listed, lpc, accumulated>>
    /\ UNCHANGED notLoopVars

\* The file is read, the window selected and the rows concatenated to
\* csv_df (chart_data.py 86; plot 176-181).
DeviceAccumulated ==
    /\ lpc = "loop"
    /\ li <= Len(listed)
    /\ DeviceOutcome(lcaller, listed[li]) = "accumulate"
    /\ accumulated' = accumulated \o DeviceRows(li, listed[li].rows)
    /\ li' = li + 1
    /\ UNCHANGED <<lcaller, listed, lpc>>
    /\ UNCHANGED notLoopVars

\* The body raises; neither function catches it.
DeviceRaises ==
    /\ lpc = "loop"
    /\ li <= Len(listed)
    /\ DeviceOutcome(lcaller, listed[li]) \notin {"skip", "accumulate"}
    /\ lpc' = DeviceOutcome(lcaller, listed[li])
    /\ UNCHANGED <<lcaller, listed, li, accumulated>>
    /\ UNCHANGED notLoopVars

\* The list is exhausted.
DevicesDone ==
    /\ lpc = "loop"
    /\ li > Len(listed)
    /\ lpc' = "done"
    /\ UNCHANGED <<lcaller, listed, li, accumulated>>
    /\ UNCHANGED notLoopVars

NextLoop ==
    \/ DeviceSkipped
    \/ DeviceAccumulated
    \/ DeviceRaises
    \/ DevicesDone

SpecLoop == InitLoop /\ [][NextLoop]_vars

\* The rows of the devices at indices 1..n whose files exist, in the order
\* of the list.
RECURSIVE RowsOfExisting(_)
RowsOfExisting(n) ==
    IF n = 0 THEN <<>>
    ELSE RowsOfExisting(n - 1) \o
             (IF ~listed[n].exists THEN <<>>
              ELSE DeviceRows(n, listed[n].rows))

\* C21: a device without a file adds no row to the accumulated table, is
\* never the device at which the loop raises, and the devices after it are
\* read and accumulated: the table holds the rows of every device with a
\* file that the loop has passed.
C21_MissingFileSkipped ==
    /\ accumulated = RowsOfExisting(li - 1)
    /\ \A i \in DOMAIN listed :
           ~listed[i].exists =>
               /\ \A k \in DOMAIN accumulated : accumulated[k][1] # i
               /\ ~(lpc \notin {"loop", "done"} /\ li = i)
               /\ (lpc = "loop" /\ li = i) => ENABLED DeviceSkipped

\* C21: the loop is done; a device without a file was followed by one
\* whose rows were accumulated.
C21_Witness ==
    /\ lpc = "done"
    /\ \E i, j \in DOMAIN listed :
           /\ i < j
           /\ ~listed[i].exists
           /\ \E k \in DOMAIN accumulated : accumulated[k][1] = j

-----------------------------------------------------------------------------
\* Claims about e4_timestamp and the accumulators, checked under
\* SpecReaders.

\* The number of files of the directory the loop has passed.
Passed == Len(directory) - Len(todo)

\* The timestamps start_time + k * sample_rate, k = 0, 1, ..., one for
\* each row after the first two of an E4 file.
E4Stamps(lines) ==
    [k \in 1..(Len(lines) - 2) |->
        strftime(fromtimestamp(lines[1].x + (k - 1) * lines[2].x), ".")]

\* The same for the first n files of the directory, in listing order.
RECURSIVE E4StampsOfFiles(_)
E4StampsOfFiles(n) ==
    IF n = 0 THEN <<>>
    ELSE E4StampsOfFiles(n - 1) \o
         (IF Matches(reader, directory[n].name) = "acc"
          THEN E4Stamps(directory[n].lines)
          ELSE <<>>)

\* The part of C22 about the rows alone: one reading per row after the
\* first two, in file order.
E4RowsKept ==
    (reader = "e4_acc" /\ acc_data.state = "table") =>
        [i \in DOMAIN acc_data.rows |->
            <<acc_data.rows[i].x, acc_data.rows[i].y, acc_data.rows[i].z>>]
            = [i \in DOMAIN RawOfFiles("acc", Passed) |->
                  <<float(RawOfFiles("acc", Passed)[i].x),
                    float(RawOfFiles("acc", Passed)[i].y),
                    float(RawOfFiles("acc", Passed)[i].z)>>]

\* C22: the readings e4_timestamp returns for an E4 file are one per row
\* after the first two, in file order, the k-th stamped
\* start_time + k * sample_rate; none has a missing timestamp.
C22_E4Stamps ==
    /\ E4RowsKept
    /\ (reader = "e4_acc" /\ acc_data.state = "table") =>
           [i \in DOMAIN acc_data.rows |-> acc_data.rows[i].Timestamp]
               = E4StampsOfFiles(Passed)

\* The tables of the first n files of the directory that the reader takes
\* for acc_data, concatenated in listing order.
RECURSIVE TablesOfFiles(_)
TablesOfFiles(n) ==
    IF n = 0 THEN <<>>
    ELSE TablesOfFiles(n - 1) \o
         (IF Matches(reader, directory[n].name) = "acc"
          THEN FileTable(reader, directory[n].lines)
          ELSE <<>>)

\* C25: in the loops of actigraph_acc and e4_acc, after any number of
\* files the accumulator holds the tables of the matching files passed so
\* far, concatenated in listing order; a file that does not match adds
\* nothing, and before the first matching file the accumulator has no row.
C25_AccumulatorIsConcatenation ==
    reader \in {"actigraph_acc", "e4_acc"} =>
        /\ acc_data.rows = TablesOfFiles(Passed)
        /\ (acc_data.state = "table") =
               (\E i \in 1..Passed : Matches(reader, directory[i].name) = "acc")

\* C25: two matching files have been passed, the first with an empty
\* table, the second with rows.
C25_Witness ==
    /\ reader \in {"actigraph_acc", "e4_acc"}
    /\ Passed = 2
    /\ \A i \in 1..2 : Matches(reader, directory[i].name) = "acc"
    /\ FileTable(reader, directory[1].lines) = <<>>
    /\ acc_data.rows # <<>>

\* C25: two matching files with rows have been passed.
C25_BothWithRows ==
    /\ reader \in {"actigraph_acc", "e4_acc"}
    /\ Passed = 2
    /\ \A i \in 1..2 : /\ Matches(reader, directory[i].name) = "acc"
                       /\ FileTable(reader, directory[i].lines) # <<>>
    /\ Len(acc_data.rows) > Len(FileTable(reader, directory[2].lines))

-----------------------------------------------------------------------------
\* plot_normalized_vector_lengths.cross_correlate, lines 199-214, on two
\* series as linechart builds them (lines 271-275): the values of a device
\* column with the rows of missing values dropped. Values are integers.

\* Largest length of a series.
MaxSamples == 3

\* The values of a series.
SampleValues == {1, 2}

\* The sum of a[n + k] * v[n] over the indices n of v.
RECURSIVE SlidingDot(_, _, _, _)
SlidingDot(a, v, k, n) ==
    IF n = 0 THEN 0
    ELSE SlidingDot(a, v, k, n - 1) + a[n + k] * v[n]

Reverse(c) == [i \in DOMAIN c |-> c[Len(c) + 1 - i]]

\* np.correlate(a, v), mode 'valid' by default (line 211): one value for
\* each position at which the shorter series lies within the longer one,
\* max(M, N) - min(M, N) + 1 values; with the longer series second, the
\* positions are passed in the opposite order.
correlate(a, v) ==
    IF Len(a) >= Len(v)
    THEN [k \in 1..(Len(a) - Len(v) + 1) |-> SlidingDot(a, v, k - 1, Len(v))]
    ELSE Reverse([k \in 1..(Len(v) - Len(a) + 1) |->
                     SlidingDot(v, a, k - 1, Len(a))])

InitXcorr ==
    /\ xpc = "call"
    /\ xs1 \in UNION {[1..n -> SampleValues] : n \in 0..MaxSamples}
    /\ xs2 \in UNION {[1..n -> SampleValues] : n \in 0..MaxSamples}
    /\ corr = <<>>
    /\ PeopleIdle
    /\ WindowIdle
    /\ ReaderIdle
    /\ ShiftIdle
    /\ CorrIdle
    /\ DriverIdle
    /\ ParseIdle
    /\ PivotIdle
    /\ PlotIdle
    /\ PipelineIdle
    /\ ConvertIdle
    /\ LoopIdle
    /\ DropIdle
    /\ ChartIdle
    /\ FrameIdle
    /\ SettingsIdle

\* Lines 211-214: np.correlate returns and str(corr) is written.
CrossCorrelateWrites ==
    /\ xpc = "call"
    /\ xs1 # <<>>
    /\ xs2 # <<>>
    /\ corr' = correlate(xs1, xs2)
    /\ xpc' = "written"
    /\ UNCHANGED <<xs1, xs2>>
    /\ UNCHANGED notXcorrVars

\* Line 211: np.correlate raises ValueError on an empty series.
CrossCorrelateRaises ==
    /\ xpc = "call"
    /\ xs1 = <<>> \/ xs2 = <<>>
    /\ xpc' = "ValueError"
    /\ UNCHANGED <<xs1, xs2, corr>>
    /\ UNCHANGED notXcorrVars

NextXcorr ==
    \/ CrossCorrelateWrites
    \/ CrossCorrelateRaises

SpecXcorr == InitXcorr /\ [][NextXcorr]_vars

\* C23: whatever the lengths of the two series, cross_correlate writes
\* exactly one scalar for the pair.
C23_OneScalar ==
    /\ xpc # "ValueError"
    /\ xpc = "written" => Len(corr) = 1

\* The part of C23 for series of equal length.
OneScalarForEqualLengths ==
    (xpc = "written" /\ Len(xs1) = Len(xs2)) => Len(corr) = 1

-----------------------------------------------------------------------------
\* One call of drop_non_csv (organize_wearable_data.py 637-665) on an open
\* file at its start. The lines are numbered; the header line and the
\* lines after it have a number of comma-separated fields each.

\* Largest number of lines of the file.
MaxLines == 102

\* The values of drop_rows: those of the callers (lines 78 and 405) and
\* two small ones.
DropRows == {0, 1, 10, 100}

\* Whether pd.DataFrame(rows, columns=header) at line 664 raises: a header
\* was read and its width is not that of the rows (AssertionError,
\* "4 columns passed, passed data had 3 columns"). Without rows, or
\* without a header, any width will do.
HeaderMismatch(lines, drop_rows, header_row, w) ==
    /\ header_row
    /\ Len(lines) > drop_rows + 1
    /\ w.header # w.rows

InitDrop ==
    /\ drop_pc = "call"
    /\ csv_lines \in {[i \in 1..n |-> i] : n \in 0..MaxLines}
    /\ drop_arg \in DropRows
    /\ header_arg \in BOOLEAN
    /\ fields \in [header : {3, 4}, rows : {4}]
    /\ dropped_df = <<>>
    /\ PeopleIdle
    /\ WindowIdle
    /\ ReaderIdle
    /\ ShiftIdle
    /\ CorrIdle
    /\ DriverIdle
    /\ ParseIdle
    /\ PivotIdle
    /\ PlotIdle
    /\ PipelineIdle
    /\ ConvertIdle
    /\ LoopIdle
    /\ XcorrIdle
    /\ ChartIdle
    /\ FrameIdle
    /\ SettingsIdle

\* Lines 659-665: the dataframe is built and returned.
DropNonCsvReturns ==
    /\ drop_pc = "call"
    /\ ~HeaderMismatch(csv_lines, drop_arg, header_arg, fields)
    /\ dropped_df' = drop_non_csv(csv_lines, drop_arg, header_arg)
    /\ drop_pc' = "returned"
    /\ UNCHANGED <<csv_lines, drop_arg, header_arg, fields>>
    /\ UNCHANGED notDropVars

\* Line 664: the header does not fit the rows.
DropNonCsvRaises ==
    /\ drop_pc = "call"
    /\ HeaderMismatch(csv_lines, drop_arg, header_arg, fields)
    /\ drop_pc' = "AssertionError"
    /\ UNCHANGED <<csv_lines, drop_arg, header_arg, fields, dropped_df>>
    /\ UNCHANGED notDropVars

NextDrop ==
    \/ DropNonCsvReturns
    \/ DropNonCsvRaises

SpecDrop == InitDrop /\ [][NextDrop]_vars

\* C24: for a file of L lines whose header, if any, fits its rows,
\* drop_non_csv returns max(L - drop_rows - h, 0) rows, h = 1 with
\* header_row and 0 without: none of the first drop_rows lines, not the
\* header line, and every later line, one row each, in file order.
C24_RowsAfterDropped ==
    LET L == Len(csv_lines)
        h == IF header_arg THEN 1 ELSE 0
        n == IF L - drop_arg - h > 0 THEN L - drop_arg - h ELSE 0
    IN  /\ drop_pc = "returned" =>
              /\ Len(dropped_df) = n
              /\ \A k \in 1..n : dropped_df[k] = csv_lines[drop_arg + h + k]
        /\ fields.header = fields.rows => drop_pc \in {"call", "returned"}

\* C24: the Actigraph call (10 lines dropped, then the header) has
\* returned the rows of a file with lines after the header.
C24_Witness ==
    /\ drop_pc = "returned"
    /\ drop_arg = 10
    /\ header_arg
    /\ Len(csv_lines) > 12
    /\ Len(dropped_df) = Len(csv_lines) - 11

-----------------------------------------------------------------------------
\* chart_data.main (24-28) on a placement log whose rows ascend in time,
\* with the readings buildperson (52-86) selects for each person-wrist.

\* Largest number of rows of the placement log.
MaxLogRows == 4

\* The seconds between two rows of the placement log.
LogStep == 100

\* The placement logs of up to most rows: row i at (i - 1) * LogStep, its
\* cells as in PlacementCells.
LogTables(most) ==
    UNION { { [i \in 1..n |-> [Timestamp |-> (i - 1) * LogStep,
                               cells |-> c[i]]] :
                c \in [1..n -> PlacementCells] } :
            n \in 1..most }

\* The seconds at which every device has a reading: midway between two
\* rows of the log.
ReadingSeconds == {(i - 1) * LogStep + LogStep \div 2 : i \in 1..MaxLogRows}

\* The organized file of a device: one reading at each of ReadingSeconds,
\* the Timestamp as save_df writes it.
OrganizedFile(dv) ==
    LET ts == SortedSeq(ReadingSeconds)
    IN  [i \in DOMAIN ts |->
            [Timestamp |-> strftime(fromtimestamp(ts[i]), "."), value |-> 1]]

\* The readings of one device inside [start, stop], as (device, datetime).
SelectedOf(dv, start, stop) ==
    LET sel == WindowBuildperson(OrganizedFile(dv), start, stop).df
    IN  [i \in DOMAIN sel |->
            [device |-> dv, Timestamp |-> datetimedt(sel[i].Timestamp)]]

\* A variant of BuildpersonSelection that takes, for each row of df, the
\* readings of the row's device inside the row's own interval.
BuildpersonSelectionByInterval(df, pw) ==
    LET rows == SelectSeq(df, LAMBDA r : r.person_wrist = pw)
    IN  Flatten([i \in DOMAIN rows |->
                    SelectedOf(rows[i].device,
                               strftime(rows[i].start, "."),
                               strftime(rows[i].stop, "."))],
                Len(rows))

\* chart_data.py 52-86: csv_df of buildperson. The window is the overall
\* one of get_startstop (line 52), the devices are pd.unique of the device
\* column of pw's rows (lines 53-55), and each device's readings inside
\* the window are concatenated (lines 59-86).
BuildpersonSelection(df, pw) ==
    LET ss == get_startstop(df, pw)
        rows == SelectSeq(df, LAMBDA r : r.person_wrist = pw)
        dvs == Unique([i \in DOMAIN rows |-> rows[i].device])
    IN  Flatten([j \in DOMAIN dvs |-> SelectedOf(dvs[j], ss.start, ss.stop)],
                Len(dvs))

InitChart ==
    /\ kpc = "getpeople"
    /\ log_table \in LogTables(MaxLogRows)
    /\ kpeople_df = <<>>
    /\ kpeople_w = <<>>
    /\ person_charts = <<>>
    /\ PeopleIdle
    /\ WindowIdle
    /\ ReaderIdle
    /\ ShiftIdle
    /\ CorrIdle
    /\ DriverIdle
    /\ ParseIdle
    /\ PivotIdle
    /\ PlotIdle
    /\ PipelineIdle
    /\ ConvertIdle
    /\ LoopIdle
    /\ XcorrIdle
    /\ DropIdle
    /\ FrameIdle
    /\ SettingsIdle

\* Lines 25-26: getpeople returns and main takes the person-wrists.
ChartGetpeople ==
    /\ kpc = "getpeople"
    /\ GetpeopleOutcome(log_table) = "returns"
    /\ kpeople_df' = PeopleDf(People(log_table, StartStop(Times(log_table)),
                                     ChartWrists(log_table)))
    /\ kpeople_w' =
          Unique([i \in DOMAIN kpeople_df' |-> kpeople_df'[i].person_wrist])
    /\ kpc' = "main"
    /\ UNCHANGED <<log_table, person_charts>>
    /\ UNCHANGED notChartVars

\* Line 25: getpeople raises KeyError at start_stop[...] (line 216) for a
\* device worn in the last row of the log, or TypeError at line 204 for a
\* device that is never worn while another is; main has no handler.
ChartGetpeopleRaises ==
    /\ kpc = "getpeople"
    /\ GetpeopleOutcome(log_table) # "returns"
    /\ kpc' = GetpeopleOutcome(log_table)
    /\ UNCHANGED <<log_table, kpeople_df, kpeople_w, person_charts>>
    /\ UNCHANGED notChartVars

\* Lines 27-28: buildperson for the next person-wrist.
ChartPerson ==
    /\ kpc = "main"
    /\ kpeople_w # <<>>
    /\ person_charts' =
          Append(person_charts,
                 [pw |-> Head(kpeople_w),
                  csv_df |-> BuildpersonSelection(kpeople_df, Head(kpeople_w))])
    /\ kpeople_w' = Tail(kpeople_w)
    /\ UNCHANGED <<kpc, log_table, kpeople_df>>
    /\ UNCHANGED notChartVars

\* Line 27: the loop is over.
ChartMainDone ==
    /\ kpc = "main"
    /\ kpeople_w = <<>>
    /\ kpc' = "done"
    /\ UNCHANGED <<log_table, kpeople_df, kpeople_w, person_charts>>
    /\ UNCHANGED notChartVars

NextChart ==
    \/ ChartGetpeople
    \/ ChartGetpeopleRaises
    \/ ChartPerson
    \/ ChartMainDone

SpecChart == InitChart /\ [][NextChart]_vars

\* The rows of the log in which pw wears some device, and pw's overall
\* window: from the first of them to the row after the last of them.
WornRows(pw) ==
    {i \in DOMAIN log_table :
        \E dv \in Range(devices) : log_table[i].cells[dv] = pw}

EverWore(pw, dv) == \E i \in DOMAIN log_table : log_table[i].cells[dv] = pw

InOverallWindow(pw, t) ==
    /\ \E i \in WornRows(pw) : log_table[i].Timestamp <= t
    /\ \E i \in WornRows(pw) : t <= log_table[i].Timestamp + LogStep

\* The device is on another person-wrist at second t of the log.
OnAnother(pw, dv, t) ==
    \E i \in DOMAIN log_table :
        /\ log_table[i].Timestamp < t
        /\ t < log_table[i].Timestamp + LogStep
        /\ log_table[i].cells[dv] \notin {pw, NaN}

\* C26: the readings buildperson selects for a person-wrist pw are those
\* of the devices pw ever wore whose timestamp lies in pw's overall window,
\* whoever the log assigns the device to at that timestamp.
C26_OverallWindowOnly ==
    \A k \in DOMAIN person_charts :
        LET pw == person_charts[k].pw
            csv == person_charts[k].csv_df
        IN  \A dv \in Range(devices), t \in ReadingSeconds :
                ([device |-> dv, Timestamp |-> fromtimestamp(t)] \in Range(csv))
                    = (EverWore(pw, dv) /\ InOverallWindow(pw, t))

\* C26: a person-wrist's selection holds a reading taken while the log
\* has the device on another person-wrist.
C26_Witness ==
    \E k \in DOMAIN person_charts :
        \E r \in Range(person_charts[k].csv_df), t \in ReadingSeconds :
            /\ r.Timestamp = fromtimestamp(t)
            /\ OnAnother(person_charts[k].pw, r.device, t)

-----------------------------------------------------------------------------
(* plot_normalized_vector_lengths.build_plot: the unshifted and the shifted *)
(* table of one device                                                      *)

MaxFrameRows == 3

\* The Timestamp column of a selection of n rows: device_df is sorted by
\* Timestamp (line 151) and the selection keeps its order.
FrameStamps(n) ==
    {t \in [1..n -> 1..2] : \A i, j \in 1..n : i < j => t[i] <= t[j]}

\* The selections of lines 158-160: rows with a Timestamp and a
\* normalized_vector_length.
WindowRows ==
    UNION {{[i \in 1..n |-> [Timestamp |-> t[i], normalized_vector_length |-> c[i]]] :
               t \in FrameStamps(n), c \in [1..n -> ColumnValues]} :
           n \in 0..MaxFrameRows}

\* A copy that is the table it was taken from.
CopyAlias(ref, fresh) == ref

\* DataFrame.copy(): the result is a new table, holding what the table
\* copied holds.
copy(ref, fresh) == fresh

\* Lines 163-164: pddf['device'] = device; line 165 rebinds the loop
\* variable only.
SetDevice(rows, device) ==
    [i \in DOMAIN rows |->
        [Timestamp |-> rows[i].Timestamp,
         normalized_vector_length |-> rows[i].normalized_vector_length,
         device |-> device]]

\* The column normalized_vector_length of a table.
VectorLengths(rows) == [i \in DOMAIN rows |-> rows[i].normalized_vector_length]

\* data['normalized_vector_length'] = col: the column is replaced in the
\* table itself, row by row; the other columns are kept.
SetVectorLengths(rows, col) ==
    [i \in DOMAIN rows |-> [rows[i] EXCEPT !.normalized_vector_length = col[i]]]

InitFrame ==
    /\ fpc = "selected"
    /\ fdevice \in {"Actigraph", "E4"}
    /\ window_rows \in WindowRows
    /\ frames = <<window_rows>>
    /\ unshifted_ref = 1
    /\ shifted_ref = 0
    /\ PeopleIdle
    /\ WindowIdle
    /\ ReaderIdle
    /\ ShiftIdle
    /\ CorrIdle
    /\ DriverIdle
    /\ ParseIdle
    /\ PivotIdle
    /\ PlotIdle
    /\ PipelineIdle
    /\ ConvertIdle
    /\ LoopIdle
    /\ XcorrIdle
    /\ DropIdle
    /\ ChartIdle
    /\ SettingsIdle

\* Line 161: person_device_shifted = person_device_df.copy().
CopySelection ==
    /\ fpc = "selected"
    /\ frames' = Append(frames, frames[unshifted_ref])
    /\ shifted_ref' = copy(unshifted_ref, Len(frames) + 1)
    /\ fpc' = "copied"
    /\ UNCHANGED <<fdevice, window_rows, unshifted_ref>>
    /\ UNCHANGED notFrameVars

\* Lines 163-166: both tables get the device column.
LabelTables ==
    /\ fpc = "copied"
    /\ frames' = [r \in DOMAIN frames |->
                     IF r \in {unshifted_ref, shifted_ref}
                     THEN SetDevice(frames[r], fdevice)
                     ELSE frames[r]]
    /\ fpc' = "labelled"
    /\ UNCHANGED <<fdevice, window_rows, unshifted_ref, shifted_ref>>
    /\ UNCHANGED notFrameVars

\* Lines 168-169: baseshift_and_renormalize on the shifted table, with at
\* least one row: the column is replaced in the table passed (98, 101) and
\* that table is returned.
ShiftTable ==
    /\ fpc = "labelled"
    /\ frames[shifted_ref] # <<>>
    /\ LET col == VectorLengths(frames[shifted_ref])
           sh == Shifted(col, nanmedian(col))
       IN  frames' = [frames EXCEPT ![shifted_ref] =
                         SetVectorLengths(@, Renormalized(sh, max(sh)))]
    /\ fpc' = "shifted"
    /\ UNCHANGED <<fdevice, window_rows, unshifted_ref, shifted_ref>>
    /\ UNCHANGED notFrameVars

\* Lines 168-169 on a table without rows: line 98 replaces the empty column
\* by an empty column and max() at line 100 raises ValueError.
ShiftTableRaises ==
    /\ fpc = "labelled"
    /\ frames[shifted_ref] = <<>>
    /\ fpc' = "ValueError"
    /\ UNCHANGED <<fdevice, window_rows, frames, unshifted_ref, shifted_ref>>
    /\ UNCHANGED notFrameVars

NextFrame ==
    \/ CopySelection
    \/ LabelTables
    \/ ShiftTable
    \/ ShiftTableRaises

SpecFrame == InitFrame /\ [][NextFrame]_vars

\* C28: once baseshift_and_renormalize has been applied to the shifted
\* table, the unshifted table is still the selection with its device label,
\* and the shifted table has the same number of rows in the same order with
\* the same timestamps and device labels.
C28_OnlyShiftedColumnChanges ==
    fpc \in {"shifted", "ValueError"} =>
        /\ frames[unshifted_ref] = SetDevice(window_rows, fdevice)
        /\ Len(frames[shifted_ref]) = Len(window_rows)
        /\ \A i \in DOMAIN window_rows :
              /\ frames[shifted_ref][i].Timestamp = window_rows[i].Timestamp
              /\ frames[shifted_ref][i].device = fdevice

\* Three rows were shifted and the shifted column differs from the
\* unshifted one in every row.
C28_Witness ==
    /\ fpc = "shifted"
    /\ Len(window_rows) = 3
    /\ \A i \in DOMAIN window_rows :
          frames[shifted_ref][i].normalized_vector_length
              # frames[unshifted_ref][i].normalized_vector_length

-----------------------------------------------------------------------------
(* mindboggle/pipeline.py: the user settings and the names the script binds *)

\* Lines 85-94, 98-102 and 116: the settings.
InitLabels == {"DKatlas", "DKTatlas", "max", "manual"}

Settings ==
    [do_input_vtk : BOOLEAN, do_fundi : BOOLEAN, do_sulci : BOOLEAN,
     do_thickness : BOOLEAN, do_convexity : BOOLEAN,
     do_vertex_tables : BOOLEAN, do_fill : BOOLEAN,
     do_measure_volume : BOOLEAN, do_evaluate_surface : BOOLEAN,
     do_evaluate_volume : BOOLEAN, run_labelFlow : BOOLEAN,
     run_shapeFlow : BOOLEAN, run_featureFlow : BOOLEAN,
     run_tableFlow : BOOLEAN, run_volumeFlow : BOOLEAN,
     init_labels : InitLabels]

\* The statements of pipeline.py, lines 180-1273, that bind or read a name
\* not bound on every path before: consecutive statements under the same
\* conditions are one entry, from line first to line last. on is the
\* conjunction of the conditions the statements stand under (an else
\* branch negates its condition); uses are the names the entry reads and
\* does not bind itself before, defs the names it binds; exits marks
\* sys.exit (1171). fundi_from_sulci is False (657), generate_graphs is 0
\* (1262), run_flow1 and run_flow2 are True (1260-1261), and the file runs
\* as a script.
GraphStatements(s) ==
    <<
       [first |-> 222, last |-> 227,
        on |-> s.do_fill,
        uses |-> {},
        defs |-> {"Vol"},
        exits |-> FALSE],
       [first |-> 239, last |-> 243,
        on |-> ~s.do_input_vtk,
        uses |-> {},
        defs |-> {"ConvertSurf"},
        exits |-> FALSE],
       [first |-> 248, last |-> 257,
        on |-> (s.do_evaluate_surface \/ s.init_labels = "manual"
                  \/ s.run_labelFlow),
        uses |-> {},
        defs |-> {"Atlas"},
        exits |-> FALSE],
       [first |-> 272, last |-> 272,
        on |-> s.run_labelFlow,
        uses |-> {},
        defs |-> {"labelFlow"},
        exits |-> FALSE],
       [first |-> 278, last |-> 290,
        on |-> s.run_labelFlow /\ s.init_labels = "DKatlas",
        uses |-> {"ConvertSurf", "labelFlow"},
        defs |-> {"FreeLabels"},
        exits |-> FALSE],
       [first |-> 299, last |-> 330,
        on |-> s.run_labelFlow
               /\ ~(s.init_labels = "DKatlas")
               /\ s.init_labels = "DKTatlas",
        uses |-> {"labelFlow"},
        defs |-> {"Classifier", "Classifier2vtk"},
        exits |-> FALSE],
       [first |-> 332, last |-> 332,
        on |-> s.run_labelFlow
               /\ ~(s.init_labels = "DKatlas")
               /\ s.init_labels = "DKTatlas"
               /\ s.do_input_vtk,
        uses |-> {"labelFlow"},
        defs |-> {},
        exits |-> FALSE],
       [first |-> 336, last |-> 336,
        on |-> s.run_labelFlow
               /\ ~(s.init_labels = "DKatlas")
               /\ s.init_labels = "DKTatlas"
               /\ ~s.do_input_vtk,
        uses |-> {"ConvertSurf", "labelFlow"},
        defs |-> {},
        exits |-> FALSE],
       [first |-> 339, last |-> 345,
        on |-> s.run_labelFlow
               /\ ~(s.init_labels = "DKatlas")
               /\ s.init_labels = "DKTatlas",
        uses |-> {"Classifier", "Classifier2vtk", "labelFlow"},
        defs |-> {},
        exits |-> FALSE],
       [first |-> 354, last |-> 411,
        on |-> s.run_labelFlow
               /\ ~(s.init_labels = "DKatlas")
               /\ ~(s.init_labels = "DKTatlas")
               /\ s.init_labels = "max",
        uses |-> {"info", "labelFlow", "template"},
        defs |-> {"Register", "Transform", "Vote", "atlas_list",
                  "atlas_list_file", "free_template"},
        exits |-> FALSE],
       [first |-> 413, last |-> 413,
        on |-> s.run_labelFlow
               /\ ~(s.init_labels = "DKatlas")
               /\ ~(s.init_labels = "DKTatlas")
               /\ s.init_labels = "max"
               /\ s.do_input_vtk,
        uses |-> {"labelFlow"},
        defs |-> {},
        exits |-> FALSE],
       [first |-> 416, last |-> 416,
        on |-> s.run_labelFlow
               /\ ~(s.init_labels = "DKatlas")
               /\ ~(s.init_labels = "DKTatlas")
               /\ s.init_labels = "max"
               /\ ~s.do_input_vtk,
        uses |-> {"ConvertSurf", "labelFlow"},
        defs |-> {},
        exits |-> FALSE],
       [first |-> 418, last |-> 419,
        on |-> s.run_labelFlow
               /\ ~(s.init_labels = "DKatlas")
               /\ ~(s.init_labels = "DKTatlas")
               /\ s.init_labels = "max",
        uses |-> {"Transform", "Vote", "labelFlow"},
        defs |-> {},
        exits |-> FALSE],
       [first |-> 427, last |-> 443,
        on |-> s.run_labelFlow
               /\ ~(s.init_labels = "DKatlas")
               /\ ~(s.init_labels = "DKTatlas")
               /\ ~(s.init_labels = "max")
               /\ s.init_labels = "manual",
        uses |-> {"Atlas", "labelFlow"},
        defs |-> {"AtlasLabels"},
        exits |-> FALSE],
       [first |-> 452, last |-> 487,
        on |-> s.run_shapeFlow,
        uses |-> {},
        defs |-> {"AreaNode", "CurvNode", "DepthNode", "area_command",
                  "curvature_command", "depth_command", "shapeFlow"},
        exits |-> FALSE],
       [first |-> 492, last |-> 502,
        on |-> s.run_shapeFlow /\ s.do_thickness,
        uses |-> {"ConvertSurf", "shapeFlow"},
        defs |-> {"ThickNode"},
        exits |-> FALSE],
       [first |-> 505, last |-> 515,
        on |-> s.run_shapeFlow /\ s.do_convexity,
        uses |-> {"ConvertSurf", "shapeFlow"},
        defs |-> {"ConvexNode"},
        exits |-> FALSE],
       [first |-> 520, last |-> 520,
        on |-> s.run_shapeFlow,
        uses |-> {"AreaNode", "CurvNode", "DepthNode", "shapeFlow"},
        defs |-> {},
        exits |-> FALSE],
       [first |-> 522, last |-> 526,
        on |-> s.run_shapeFlow /\ s.do_input_vtk,
        uses |-> {"shapeFlow"},
        defs |-> {},
        exits |-> FALSE],
       [first |-> 529, last |-> 533,
        on |-> s.run_shapeFlow /\ ~s.do_input_vtk,
        uses |-> {"ConvertSurf", "shapeFlow"},
        defs |-> {},
        exits |-> FALSE],
       [first |-> 535, last |-> 539,
        on |-> s.run_shapeFlow,
        uses |-> {"shapeFlow"},
        defs |-> {},
        exits |-> FALSE],
       [first |-> 553, last |-> 574,
        on |-> s.run_featureFlow,
        uses |-> {"shapeFlow"},
        defs |-> {"FoldsNode", "featureFlow"},
        exits |-> FALSE],
       [first |-> 601, last |-> 618,
        on |-> s.run_featureFlow /\ s.do_sulci,
        uses |-> {"featureFlow"},
        defs |-> {"LabelPairs", "SulciNode"},
        exits |-> FALSE],
       [first |-> 622, last |-> 622,
        on |-> s.run_featureFlow /\ s.do_sulci /\ s.init_labels = "DKatlas",
        uses |-> {"featureFlow", "labelFlow"},
        defs |-> {},
        exits |-> FALSE],
       [first |-> 626, last |-> 626,
        on |-> s.run_featureFlow
               /\ s.do_sulci
               /\ ~(s.init_labels = "DKatlas")
               /\ s.init_labels = "DKTatlas",
        uses |-> {"featureFlow", "labelFlow"},
        defs |-> {},
        exits |-> FALSE],
       [first |-> 630, last |-> 630,
        on |-> s.run_featureFlow
               /\ s.do_sulci
               /\ ~(s.init_labels = "DKatlas")
               /\ ~(s.init_labels = "DKTatlas")
               /\ s.init_labels = "max",
        uses |-> {"featureFlow", "labelFlow"},
        defs |-> {},
        exits |-> FALSE],
       [first |-> 634, last |-> 634,
        on |-> s.run_featureFlow
               /\ s.do_sulci
               /\ ~(s.init_labels = "DKatlas")
               /\ ~(s.init_labels = "DKTatlas")
               /\ ~(s.init_labels = "max")
               /\ s.init_labels = "manual",
        uses |-> {"Atlas", "featureFlow"},
        defs |-> {},
        exits |-> FALSE],
       [first |-> 637, last |-> 648,
        on |-> s.run_featureFlow /\ s.do_sulci,
        uses |-> {"FoldsNode", "LabelPairs", "SulciNode", "featureFlow"},
        defs |-> {"fid", "sulcus_names", "sulcus_names_file"},
        exits |-> FALSE],
       [first |-> 655, last |-> 694,
        on |-> s.run_featureFlow /\ s.do_fundi,
        uses |-> {"FoldsNode", "featureFlow", "shapeFlow"},
        defs |-> {"FundiNode", "Like", "min_distance", "np", "thr"},
        exits |-> FALSE],
       [first |-> 739, last |-> 757,
        on |-> s.run_tableFlow,
        uses |-> {},
        defs |-> {"LabelTable", "column_names", "input_names", "tableFlow",
                  "vtk_files"},
        exits |-> FALSE],
       [first |-> 761, last |-> 761,
        on |-> s.run_tableFlow /\ s.init_labels = "DKatlas",
        uses |-> {"labelFlow", "tableFlow"},
        defs |-> {},
        exits |-> FALSE],
       [first |-> 765, last |-> 765,
        on |-> s.run_tableFlow
               /\ ~(s.init_labels = "DKatlas")
               /\ s.init_labels = "DKTatlas",
        uses |-> {"labelFlow", "tableFlow"},
        defs |-> {},
        exits |-> FALSE],
       [first |-> 769, last |-> 769,
        on |-> s.run_tableFlow
               /\ ~(s.init_labels = "DKatlas")
               /\ ~(s.init_labels = "DKTatlas")
               /\ s.init_labels = "max",
        uses |-> {"labelFlow", "tableFlow"},
        defs |-> {},
        exits |-> FALSE],
       [first |-> 773, last |-> 773,
        on |-> s.run_tableFlow
               /\ ~(s.init_labels = "DKatlas")
               /\ ~(s.init_labels = "DKTatlas")
               /\ ~(s.init_labels = "max")
               /\ s.init_labels = "manual",
        uses |-> {"labelFlow", "tableFlow"},
        defs |-> {},
        exits |-> FALSE],
       [first |-> 776, last |-> 787,
        on |-> s.run_tableFlow,
        uses |-> {"shapeFlow", "tableFlow"},
        defs |-> {},
        exits |-> FALSE],
       [first |-> 791, last |-> 791,
        on |-> s.run_tableFlow /\ s.do_thickness,
        uses |-> {"shapeFlow", "tableFlow"},
        defs |-> {},
        exits |-> FALSE],
       [first |-> 795, last |-> 795,
        on |-> s.run_tableFlow /\ s.do_convexity,
        uses |-> {"shapeFlow", "tableFlow"},
        defs |-> {},
        exits |-> FALSE],
       [first |-> 799, last |-> 803,
        on |-> s.run_tableFlow,
        uses |-> {"LabelTable", "shapeFlow", "tableFlow"},
        defs |-> {},
        exits |-> FALSE],
       [first |-> 811, last |-> 829,
        on |-> s.run_tableFlow /\ (s.run_featureFlow /\ s.do_sulci),
        uses |-> {"LabelTable", "column_names", "featureFlow", "shapeFlow",
                  "tableFlow"},
        defs |-> {"SulcusTable"},
        exits |-> FALSE],
       [first |-> 833, last |-> 833,
        on |-> s.run_tableFlow
               /\ (s.run_featureFlow
               /\ s.do_sulci)
               /\ s.do_thickness,
        uses |-> {"shapeFlow", "tableFlow"},
        defs |-> {},
        exits |-> FALSE],
       [first |-> 837, last |-> 837,
        on |-> s.run_tableFlow
               /\ (s.run_featureFlow
               /\ s.do_sulci)
               /\ s.do_convexity,
        uses |-> {"shapeFlow", "tableFlow"},
        defs |-> {},
        exits |-> FALSE],
       [first |-> 841, last |-> 846,
        on |-> s.run_tableFlow /\ (s.run_featureFlow /\ s.do_sulci),
        uses |-> {"SulcusTable", "shapeFlow", "tableFlow"},
        defs |-> {},
        exits |-> FALSE],
       [first |-> 854, last |-> 872,
        on |-> s.run_tableFlow /\ (s.run_featureFlow /\ s.do_fundi),
        uses |-> {"LabelTable", "column_names", "featureFlow", "shapeFlow",
                  "tableFlow"},
        defs |-> {"FundusTable"},
        exits |-> FALSE],
       [first |-> 876, last |-> 876,
        on |-> s.run_tableFlow
               /\ (s.run_featureFlow
               /\ s.do_fundi)
               /\ s.do_thickness,
        uses |-> {"shapeFlow", "tableFlow"},
        defs |-> {},
        exits |-> FALSE],
       [first |-> 880, last |-> 880,
        on |-> s.run_tableFlow
               /\ (s.run_featureFlow
               /\ s.do_fundi)
               /\ s.do_convexity,
        uses |-> {"shapeFlow", "tableFlow"},
        defs |-> {},
        exits |-> FALSE],
       [first |-> 884, last |-> 889,
        on |-> s.run_tableFlow /\ (s.run_featureFlow /\ s.do_fundi),
        uses |-> {"FundusTable", "shapeFlow", "tableFlow"},
        defs |-> {},
        exits |-> FALSE],
       [first |-> 898, last |-> 910,
        on |-> s.run_tableFlow /\ s.do_vertex_tables,
        uses |-> {"tableFlow"},
        defs |-> {"Vertices", "column_names2", "input_names2"},
        exits |-> FALSE],
       [first |-> 914, last |-> 914,
        on |-> s.run_tableFlow
               /\ s.do_vertex_tables
               /\ s.init_labels = "DKatlas",
        uses |-> {"labelFlow", "tableFlow"},
        defs |-> {},
        exits |-> FALSE],
       [first |-> 919, last |-> 919,
        on |-> s.run_tableFlow
               /\ s.do_vertex_tables
               /\ ~(s.init_labels = "DKatlas")
               /\ s.init_labels = "DKTatlas",
        uses |-> {"labelFlow", "tableFlow"},
        defs |-> {},
        exits |-> FALSE],
       [first |-> 924, last |-> 924,
        on |-> s.run_tableFlow
               /\ s.do_vertex_tables
               /\ ~(s.init_labels = "DKatlas")
               /\ ~(s.init_labels = "DKTatlas")
               /\ s.init_labels = "max",
        uses |-> {"labelFlow", "tableFlow"},
        defs |-> {},
        exits |-> FALSE],
       [first |-> 929, last |-> 929,
        on |-> s.run_tableFlow
               /\ s.do_vertex_tables
               /\ ~(s.init_labels = "DKatlas")
               /\ ~(s.init_labels = "DKTatlas")
               /\ ~(s.init_labels = "max")
               /\ s.init_labels = "manual",
        uses |-> {"Atlas", "tableFlow"},
        defs |-> {},
        exits |-> FALSE],
       [first |-> 933, last |-> 933,
        on |-> s.run_tableFlow /\ s.do_vertex_tables /\ s.run_featureFlow,
        uses |-> {"featureFlow", "tableFlow"},
        defs |-> {},
        exits |-> FALSE],
       [first |-> 937, last |-> 937,
        on |-> s.run_tableFlow /\ s.do_vertex_tables /\ ~s.run_featureFlow,
        uses |-> {"Vertices"},
        defs |-> {},
        exits |-> FALSE],
       [first |-> 939, last |-> 939,
        on |-> s.run_tableFlow
               /\ s.do_vertex_tables
               /\ (s.run_featureFlow
               /\ s.do_sulci),
        uses |-> {"featureFlow", "tableFlow"},
        defs |-> {},
        exits |-> FALSE],
       [first |-> 943, last |-> 943,
        on |-> s.run_tableFlow
               /\ s.do_vertex_tables
               /\ ~(s.run_featureFlow
               /\ s.do_sulci),
        uses |-> {"Vertices"},
        defs |-> {},
        exits |-> FALSE],
       [first |-> 945, last |-> 945,
        on |-> s.run_tableFlow
               /\ s.do_vertex_tables
               /\ (s.run_featureFlow
               /\ s.do_fundi),
        uses |-> {"featureFlow", "tableFlow"},
        defs |-> {},
        exits |-> FALSE],
       [first |-> 949, last |-> 949,
        on |-> s.run_tableFlow
               /\ s.do_vertex_tables
               /\ ~(s.run_featureFlow
               /\ s.do_fundi),
        uses |-> {"Vertices"},
        defs |-> {},
        exits |-> FALSE],
       [first |-> 950, last |-> 963,
        on |-> s.run_tableFlow /\ s.do_vertex_tables,
        uses |-> {"shapeFlow", "tableFlow"},
        defs |-> {},
        exits |-> FALSE],
       [first |-> 967, last |-> 967,
        on |-> s.run_tableFlow /\ s.do_vertex_tables /\ s.do_thickness,
        uses |-> {"shapeFlow", "tableFlow"},
        defs |-> {},
        exits |-> FALSE],
       [first |-> 971, last |-> 971,
        on |-> s.run_tableFlow /\ s.do_vertex_tables /\ s.do_convexity,
        uses |-> {"shapeFlow", "tableFlow"},
        defs |-> {},
        exits |-> FALSE],
       [first |-> 975, last |-> 975,
        on |-> s.run_tableFlow /\ s.do_vertex_tables,
        uses |-> {"tableFlow"},
        defs |-> {},
        exits |-> FALSE],
       [first |-> 985, last |-> 995,
        on |-> s.do_evaluate_surface,
        uses |-> {"Atlas"},
        defs |-> {"EvalSurfLabels", "surface_overlap_command"},
        exits |-> FALSE],
       [first |-> 997, last |-> 997,
        on |-> s.do_evaluate_surface /\ s.init_labels = "DKatlas",
        uses |-> {"EvalSurfLabels", "labelFlow"},
        defs |-> {},
        exits |-> FALSE],
       [first |-> 1000, last |-> 1000,
        on |-> s.do_evaluate_surface
               /\ ~(s.init_labels = "DKatlas")
               /\ s.init_labels = "DKTatlas",
        uses |-> {"EvalSurfLabels", "labelFlow"},
        defs |-> {},
        exits |-> FALSE],
       [first |-> 1003, last |-> 1003,
        on |-> s.do_evaluate_surface
               /\ ~(s.init_labels = "DKatlas")
               /\ ~(s.init_labels = "DKTatlas")
               /\ s.init_labels = "max",
        uses |-> {"EvalSurfLabels", "labelFlow"},
        defs |-> {},
        exits |-> FALSE],
       [first |-> 1006, last |-> 1006,
        on |-> s.do_evaluate_surface
               /\ ~(s.init_labels = "DKatlas")
               /\ ~(s.init_labels = "DKTatlas")
               /\ ~(s.init_labels = "max")
               /\ s.init_labels = "manual",
        uses |-> {"Atlas", "EvalSurfLabels"},
        defs |-> {},
        exits |-> FALSE],
       [first |-> 1008, last |-> 1008,
        on |-> s.do_evaluate_surface,
        uses |-> {"EvalSurfLabels"},
        defs |-> {},
        exits |-> FALSE],
       [first |-> 1019, last |-> 1041,
        on |-> (s.run_volumeFlow /\ s.do_fill),
        uses |-> {},
        defs |-> {"WriteLabels", "annotflow"},
        exits |-> FALSE],
       [first |-> 1043, last |-> 1044,
        on |-> (s.run_volumeFlow /\ s.do_fill) /\ s.init_labels = "DKatlas",
        uses |-> {"WriteLabels", "annotflow", "labelFlow"},
        defs |-> {},
        exits |-> FALSE],
       [first |-> 1048, last |-> 1049,
        on |-> (s.run_volumeFlow
               /\ s.do_fill)
               /\ s.init_labels = "DKTatlas",
        uses |-> {"WriteLabels", "annotflow", "labelFlow"},
        defs |-> {},
        exits |-> FALSE],
       [first |-> 1053, last |-> 1054,
        on |-> (s.run_volumeFlow
               /\ s.do_fill)
               /\ ~(s.init_labels = "DKTatlas")
               /\ s.init_labels = "max",
        uses |-> {"WriteLabels", "annotflow", "labelFlow"},
        defs |-> {},
        exits |-> FALSE],
       [first |-> 1058, last |-> 1059,
        on |-> (s.run_volumeFlow
               /\ s.do_fill)
               /\ ~(s.init_labels = "DKTatlas")
               /\ ~(s.init_labels = "max")
               /\ s.init_labels = "manual",
        uses |-> {"Atlas", "WriteLabels", "annotflow"},
        defs |-> {},
        exits |-> FALSE],
       [first |-> 1066, last |-> 1085,
        on |-> (s.run_volumeFlow /\ s.do_fill),
        uses |-> {"WriteLabels", "annotflow"},
        defs |-> {"WriteAnnot"},
        exits |-> FALSE],
       [first |-> 1098, last |-> 1109,
        on |-> s.run_volumeFlow,
        uses |-> {},
        defs |-> {"Info2", "Sink2", "mbFlow2"},
        exits |-> FALSE],
       [first |-> 1117, last |-> 1146,
        on |-> s.run_volumeFlow /\ s.do_fill,
        uses |-> {"Info2", "Sink2", "Vol", "mbFlow2"},
        defs |-> {"FillVolume", "Relabel", "new_labels", "old_labels",
                  "relabel_file"},
        exits |-> FALSE],
       [first |-> 1156, last |-> 1166,
        on |-> s.run_volumeFlow /\ s.do_measure_volume,
        uses |-> {"mbFlow2"},
        defs |-> {"MeasureVolumes", "volume_labels_list",
                  "volume_labels_list_file"},
        exits |-> FALSE],
       [first |-> 1168, last |-> 1168,
        on |-> s.run_volumeFlow /\ s.do_measure_volume /\ s.do_fill,
        uses |-> {"MeasureVolumes", "Relabel", "mbFlow2"},
        defs |-> {},
        exits |-> FALSE],
       [first |-> 1171, last |-> 1171,
        on |-> s.run_volumeFlow /\ s.do_measure_volume /\ ~s.do_fill,
        uses |-> {},
        defs |-> {},
        exits |-> TRUE],
       [first |-> 1176, last |-> 1194,
        on |-> s.run_volumeFlow /\ s.do_measure_volume,
        uses |-> {"Info2", "MeasureVolumes", "Sink2", "mbFlow2"},
        defs |-> {"VolumeLabelTable"},
        exits |-> FALSE],
       [first |-> 1220, last |-> 1245,
        on |-> s.run_volumeFlow /\ s.do_evaluate_volume,
        uses |-> {"Info2", "Relabel", "Sink2", "mbFlow2"},
        defs |-> {"AtlasVol", "EvalVolLabels", "labels", "labels_file"},
        exits |-> FALSE],
       [first |-> 1273, last |-> 1273,
        on |-> TRUE,
        uses |-> {"mbFlow2"},
        defs |-> {},
        exits |-> FALSE]
    >>

\* Running the statements in order from the i-th on, with the names in
\* defined bound: a statement whose conditions hold and that reads a name
\* not bound raises NameError; sys.exit ends the run; otherwise its names
\* are bound and the next statement runs.
RECURSIVE Execute(_, _, _)
Execute(stmts, i, defined) ==
    IF i > Len(stmts) THEN [ending |-> "returns", first |-> 0, last |-> 0,
                             names |-> {}]
    ELSE IF ~stmts[i].on THEN Execute(stmts, i + 1, defined)
    ELSE IF ~(stmts[i].uses \subseteq defined)
         THEN [ending |-> "NameError", first |-> stmts[i].first,
               last |-> stmts[i].last, names |-> stmts[i].uses \ defined]
    ELSE IF stmts[i].exits
         THEN [ending |-> "SystemExit", first |-> stmts[i].first,
               last |-> stmts[i].last, names |-> {}]
    ELSE Execute(stmts, i + 1, defined \cup stmts[i].defs)

\* The run of the script under settings s.
RunScript(s) == Execute(GraphStatements(s), 1, {})

InitSettings ==
    /\ gpc = "start"
    /\ settings \in Settings
    /\ construction = <<>>
    /\ PeopleIdle
    /\ WindowIdle
    /\ ReaderIdle
    /\ ShiftIdle
    /\ CorrIdle
    /\ DriverIdle
    /\ ParseIdle
    /\ PivotIdle
    /\ PlotIdle
    /\ PipelineIdle
    /\ ConvertIdle
    /\ LoopIdle
    /\ XcorrIdle
    /\ DropIdle
    /\ ChartIdle
    /\ FrameIdle

\* The script builds both graphs and runs them (1271, 1273).
ScriptReturns ==
    /\ gpc = "start"
    /\ RunScript(settings).ending = "returns"
    /\ construction' = RunScript(settings)
    /\ gpc' = "done"
    /\ UNCHANGED settings
    /\ UNCHANGED notSettingsVars

\* A statement reads a name that no statement run before has bound.
ScriptRaisesNameError ==
    /\ gpc = "start"
    /\ RunScript(settings).ending = "NameError"
    /\ construction' = RunScript(settings)
    /\ gpc' = "done"
    /\ UNCHANGED settings
    /\ UNCHANGED notSettingsVars

\* Line 1171: sys.exit, when volumes are measured and not filled.
ScriptExits ==
    /\ gpc = "start"
    /\ RunScript(settings).ending = "SystemExit"
    /\ construction' = RunScript(settings)
    /\ gpc' = "done"
    /\ UNCHANGED settings
    /\ UNCHANGED notSettingsVars

NextSettings ==
    \/ ScriptReturns
    \/ ScriptRaisesNameError
    \/ ScriptExits

SpecSettings == InitSettings /\ [][NextSettings]_vars

\* The line of the "Run workflows" block (1253): what stands before it
\* constructs the graphs.
RunWorkflowsLine == 1253

\* C29: under no combination of the settings does graph construction (the
\* statements before the "Run workflows" block) read a name that was not
\* bound earlier under that combination.
C29_NoUndefinedName ==
    gpc = "done" =>
        ~(construction.ending = "NameError" /\ construction.first < RunWorkflowsLine)

\* The part of C29 for the settings as the file has them (lines 85-116).
FileSettings ==
    [do_input_vtk |-> FALSE, do_fundi |-> FALSE, do_sulci |-> FALSE,
     do_thickness |-> TRUE, do_convexity |-> TRUE,
     do_vertex_tables |-> TRUE, do_fill |-> TRUE,
     do_measure_volume |-> TRUE, do_evaluate_surface |-> FALSE,
     do_evaluate_volume |-> FALSE, run_labelFlow |-> TRUE,
     run_shapeFlow |-> TRUE, run_featureFlow |-> TRUE,
     run_tableFlow |-> TRUE, run_volumeFlow |-> TRUE,
     init_labels |-> "manual"]

FileSettingsConstruct ==
    (gpc = "done" /\ settings = FileSettings) => construction.ending = "returns"

-----------------------------------------------------------------------------
\* A further claim about the correlation step, checked under SpecCorr.

\* C27: with two or more device series, no call of cross_correlate has
\* the same series as both arguments.
C27_NoSelfPair ==
    Len(plot_columns) >= 2 =>
        \A k \in DOMAIN calls : calls[k][1] # calls[k][2]

\* The part of C27 for exactly two series.
NoSelfPairOfTwo ==
    Len(plot_columns) = 2 =>
        \A k \in DOMAIN calls : calls[k][1] # calls[k][2]

-----------------------------------------------------------------------------
\* A further claim about buildperson's loop over the dates, checked under
\* SpecPivot.

\* The dates linechart was called with, in the order of the calls.
ChartedDates == [c \in DOMAIN charts |-> charts[c].d]

\* The calls whose wide table holds the reading of the i-th selected row.
ChartsHolding(i) ==
    {c \in DOMAIN charts :
        [Timestamp |-> csv_df[i].Timestamp, device |-> csv_df[i].device,
         x |-> csv_df[i].x, y |-> csv_df[i].y, z |-> csv_df[i].z]
            \in charts[c].df.values}

\* linechart was called once per distinct date, in ascending order, and
\* each selected reading is in the table of its own date and of no other.
PartitionedByDate ==
    /\ Range(ChartedDates) = {Datestamp(csv_df[i]) : i \in DOMAIN csv_df}
    /\ \A a, b \in DOMAIN charts : a < b => charts[a].d < charts[b].d
    /\ \A i \in DOMAIN csv_df :
          ChartsHolding(i) = {c \in DOMAIN charts : charts[c].d = Datestamp(csv_df[i])}

\* C30: when buildperson returns from a selection with readings, every
\* selected reading is in the table of exactly one date, its own, linechart
\* was called exactly once per distinct date, and the dates were processed
\* in ascending order.
C30_PartitionByDate ==
    (pvt_pc = "done" /\ Len(csv_df) > 0) => PartitionedByDate

\* buildperson returned from a selection of three or more readings on two
\* dates, a reading of the first device on a later date than one of the
\* second: csv_df was concatenated with the later date first.
C30_Witness ==
    /\ pvt_pc = "done"
    /\ Len(charts) = 2
    /\ Len(csv_df) >= 3
    /\ \E i, j \in DOMAIN csv_df :
           /\ PivotDevices[1] = csv_df[i].device
           /\ PivotDevices[2] = csv_df[j].device
           /\ Datestamp(csv_df[j]) < Datestamp(csv_df[i])

\* A run that pivot ended with ValueError (one device with two readings at
\* one Timestamp) before every date was charted.
PivotEndedTheLoop ==
    /\ pvt_pc = "ValueError"
    /\ Len(charts) < Cardinality({Datestamp(csv_df[i]) : i \in DOMAIN csv_df})

=============================================================================
